---- MODULE Spec2Model ----
(***************************************************************************)
(* State-machine model of the nix-analisa view model: the render-graph     *)
(* builder (filter, rank, edge collection, continuity preservation), the   *)
(* incremental single-node inclusion, and the revision-keyed caches        *)
(* (search matches, details panel), driven by the per-frame handlers.      *)
(*                                                                         *)
(* Store ids are modelled as naturals; their numeric order stands for the  *)
(* lexicographic order of the id strings.  Option<T> is a sequence of      *)
(* length 0 (None) or 1 (Some).  f32 quantities are scaled integers.       *)
(***************************************************************************)
EXTENDS Integers, Sequences, FiniteSets, TLC

VARIABLES
    graph,                  \* ViewModel.graph : SystemGraph (immutable in a session)
    iter_order,             \* iteration order of the HashMap graph.nodes
    metric,                 \* ViewModel.metric
    min_size_mb,            \* ViewModel.min_size_mb
    max_nodes,              \* ViewModel.max_nodes
    search,                 \* ViewModel.search
    selected,               \* ViewModel.selected : Option<id>
    graph_dirty,            \* ViewModel.graph_dirty
    render_graph_revision,  \* ViewModel.render_graph_revision
    graph_cache,            \* ViewModel.graph_cache : Option<RenderGraph>
    search_match_cache,     \* ViewModel.search_match_cache
    details_panel_cache,    \* ViewModel.details_panel_cache
    pc,                     \* position inside the frame callback
    last_op,                \* what the last step did to the render graph
    pseudo_matches,         \* draw_graph local: result of cached_pseudo_matches
    pseudo_reused,          \* whether that result came from the cache
    details_data,           \* draw_details local: result of details_panel_data
    details_reused,         \* whether that result came from the cache
    call,                   \* the function call followed step by step: arguments, locals, position
    state,                  \* NixAnalyzeApp::state: Loading { rx }, Ready or Error(message)
    reload_rx,              \* NixAnalyzeApp::reload_rx: the receiver of a reload, if any
    loads,                  \* the loads started so far: worker thread and channel of each
    applied                 \* history: the loads whose result became the state, in order

\* the view model and the locals of its frame
view_vars == <<graph, iter_order, metric, min_size_mb, max_nodes, search, selected,
               graph_dirty, render_graph_revision, graph_cache, search_match_cache,
               details_panel_cache, pc, last_op, pseudo_matches, pseudo_reused,
               details_data, details_reused>>

\* the application around the view model
app_vars == <<state, reload_rx, loads, applied>>

\* what the view model does not hold
call_vars == <<call, app_vars>>

vars == <<view_vars, call_vars>>

---------------------------------------------------------------------------
(* Bounds of the model *)

MaxRevision == 2

MaxTicks == 1

\* store paths of the closures the path search is run on
MaxPathNodes == 3

\* the most references, and the most referrers, of a selected node
MaxNeighbours == 1000

\* points of the chain that drives the quadtree to its depth limit
MaxChain == 8

\* nodes of the render graphs the integrator is run on, and its steps
MaxStepNodes == 3

MaxSteps == 2

\* loads started in one run of the application
MaxLoads == 3

\* points of a position list with coordinates that are not finite
MaxBuildPoints == 2

\* frames of the graph area followed one after the other
MaxFrames == 2

---------------------------------------------------------------------------
(* Generic helpers *)

None == <<>>

Some(x) == <<x>>

IsSome(o) == o # <<>>

Min2(a, b) == IF a <= b THEN a ELSE b

Max2(a, b) == IF a >= b THEN a ELSE b

Range(s) == {s[i] : i \in DOMAIN s}

Contains(s, x) == \E i \in DOMAIN s : s[i] = x

\* number of positions of s holding x
Occurrences(s, x) == Cardinality({i \in DOMAIN s : s[i] = x})

Reverse(s) == [i \in 1..Len(s) |-> s[Len(s) + 1 - i]]

---------------------------------------------------------------------------
(* The full dependency graph: SizeMetric, NodeRecord, SystemGraph *)

SizeMetric == {"NarSize", "ClosureSize", "Dependencies", "ReverseDependencies"}

MiB == 1048576

RECURSIVE SetToSortedSeq(_)
\* Vec::sort + Vec::dedup of a collection of ids
SetToSortedSeq(S) ==
    IF S = {} THEN <<>>
    ELSE LET m == CHOOSE x \in S : \A y \in S : x <= y
         IN  <<m>> \o SetToSortedSeq(S \ {m})

\* What the data collection makes of the raw path-info entries: references
\* lose self references and unknown ids and are sorted and deduplicated,
\* a zero closure size falls back to the nar size, referrers are the sorted
\* reverse references, and the root id is a key of the node map.
collect_system_graph(raw) ==
    LET known == DOMAIN raw.nar
        refsOf(id) == SetToSortedSeq({r \in Range(raw.refs[id]) : r \in known /\ r # id})
    IN  [ root_id |-> IF raw.root \in known THEN raw.root
                      ELSE CHOOSE k \in known : TRUE,
          nodes   |-> [id \in known |->
                        [ nar_size     |-> raw.nar[id],
                          closure_size |-> IF raw.closure[id] = 0 THEN raw.nar[id]
                                           ELSE raw.closure[id],
                          references   |-> refsOf(id),
                          referrers    |-> SetToSortedSeq({s \in known : Contains(refsOf(s), id)}) ]] ]

\* Raw closures used as inputs.  RawA has a chain 1 -> 2 -> 3 with the
\* shortcut 1 -> 3, a self reference, an unknown reference, a root below
\* every threshold, and one node below and one above the default threshold.
RawA == [ root    |-> 1,
          nar     |-> <<0, 3 * MiB, 80 * MiB>>,
          closure |-> <<90 * MiB, 0, 85 * MiB>>,
          refs    |-> << <<3, 2, 1>>, <<3, 9>>, <<>> >> ]

\* RawB: the root is not the smallest id, it refers to both other nodes
\* (once twice), both pass the default threshold with different nar sizes,
\* and they tie on the number of dependencies.
RawB == [ root    |-> 3,
          nar     |-> <<70 * MiB, 80 * MiB, 5>>,
          closure |-> <<75 * MiB, 0, 160 * MiB>>,
          refs    |-> << <<>>, <<>>, <<2, 1, 1>> >> ]

\* RawC: a closure of a single store path.
RawC == [ root    |-> 1,
          nar     |-> <<4>>,
          closure |-> <<0>>,
          refs    |-> << <<>> >> ]

\* Every session: a graph with the iteration order of its node HashMap
\* (fixed for one map, arbitrary between maps)
Sessions ==
    { <<collect_system_graph(RawA), <<3, 2, 1>>>>,
      <<collect_system_graph(RawB), <<1, 2, 3>>>>,
      <<collect_system_graph(RawC), <<1>>>> }

\* NodeRecord::metric
node_metric(node, m) ==
    CASE m = "NarSize"             -> node.nar_size
      [] m = "ClosureSize"         -> node.closure_size
      [] m = "Dependencies"        -> Len(node.references)
      [] m = "ReverseDependencies" -> Len(node.referrers)

\* SystemGraph::node_count
node_count(g) == Cardinality(DOMAIN g.nodes)

---------------------------------------------------------------------------
(* util.rs: the text of a store id, short_name and stable_pair *)

\* The characters of each store id ("<hash>-<name>")
IdText == << <<"a", "-", "a", "B">>,
             <<"a", "b">>,
             <<"b", "-", "b", "-", "a">> >>

\* short_name: the part after the first '-', or the whole id without one
short_name(text) ==
    IF \E i \in DOMAIN text : text[i] = "-"
    THEN LET first == CHOOSE i \in DOMAIN text :
                          text[i] = "-" /\ \A j \in 1..(i - 1) : text[j] # "-"
         IN  SubSeq(text, first + 1, Len(text))
    ELSE text

\* stable_pair: the two hash-derived jitter components (scaled integers)
stable_pair(id) == <<id % 3, (id * 2) % 3>>

---------------------------------------------------------------------------
(* render_utils.rs: node radius (f32 scaled by 1000) *)

RECURSIVE ILog2(_)
\* integer stand-in for the natural logarithm used by normalize_log
ILog2(x) == IF x <= 1 THEN 0 ELSE 1 + ILog2(x \div 2)

normalize_log(value, min, max) ==
    LET mn == Max2(min, 1)
        mx == Max2(max, mn)
        v  == Max2(value, 1)
        den == ILog2(mx) - ILog2(mn)
    IN  IF mx = mn THEN 500
        ELSE IF den = 0 THEN 500
        ELSE Max2(0, Min2(1000, ((ILog2(v) - ILog2(mn)) * 1000) \div den))

node_radius(m, min, max) == 6000 + (normalize_log(m, min, max) * 26)

---------------------------------------------------------------------------
(* graph/build.rs: the render graph builder.  Indices are 0-based as in the
   source; the node with index i is nodes[i + 1]. *)

RECURSIVE InsertRanked(_, _)
\* position of x in a list kept in descending metric order, after its equals
InsertRanked(x, s) ==
    IF s = <<>> THEN <<x>>
    ELSE IF s[1][1] >= x[1] THEN <<s[1]>> \o InsertRanked(x, Tail(s))
    ELSE <<x>> \o s

\* a ranking left in the map's iteration order
SortRanked_unsorted(s) == s

RECURSIVE SortRanked(_)
\* ranked.sort_by(|a, b| b.0.cmp(&a.0)) : a stable sort, metric descending
SortRanked(s) ==
    IF s = <<>> THEN <<>>
    ELSE InsertRanked(s[Len(s)], SortRanked(SubSeq(s, 1, Len(s) - 1)))

RECURSIVE TakeRanked_past_cap(_, _, _)
\* a loop that stops one node after the cap
TakeRanked_past_cap(ids, ranked, target_nodes) ==
    IF ranked = <<>> \/ Len(ids) > target_nodes THEN ids
    ELSE TakeRanked_past_cap(IF Contains(ids, ranked[1][2]) THEN ids
                             ELSE Append(ids, ranked[1][2]),
                             Tail(ranked), target_nodes)

RECURSIVE TakeRanked(_, _, _)
\* the loop over ranked: stop at target_nodes, skip ids already taken
TakeRanked(ids, ranked, target_nodes) ==
    IF ranked = <<>> \/ Len(ids) >= target_nodes THEN ids
    ELSE TakeRanked(IF Contains(ids, ranked[1][2]) THEN ids
                    ELSE Append(ids, ranked[1][2]),
                    Tail(ranked), target_nodes)

threshold_of(min_mb) == Max2(min_mb, 0) * MiB

target_nodes_of(g, maxn) == Max2(2, Min2(maxn, Max2(node_count(g), 2)))

\* the filter_map over graph.nodes, in the map's iteration order
ranked_candidates(g, order, m, min_mb, sel) ==
    LET pass(id) == \/ node_metric(g.nodes[id], m) >= threshold_of(min_mb)
                    \/ id = g.root_id
                    \/ sel = Some(id)
        kept == SelectSeq(order, pass)
    IN  [i \in 1..Len(kept) |-> <<node_metric(g.nodes[kept[i]], m), kept[i]>>]

\* a filter that pins the root only
filtered_node_ids_root_only(g, order, m, min_mb, maxn, sel) ==
    TakeRanked(IF g.root_id \in DOMAIN g.nodes THEN <<g.root_id>> ELSE <<>>,
               SortRanked(ranked_candidates(g, order, m, min_mb, sel)),
               target_nodes_of(g, maxn))

filtered_node_ids(g, order, m, min_mb, maxn, sel) ==
    LET ranked == SortRanked(ranked_candidates(g, order, m, min_mb, sel))
        ids0 == IF g.root_id \in DOMAIN g.nodes THEN <<g.root_id>> ELSE <<>>
        ids1 == IF IsSome(sel) /\ sel[1] \in DOMAIN g.nodes /\ ~Contains(ids0, sel[1])
                THEN Append(ids0, sel[1]) ELSE ids0
    IN  TakeRanked(ids1, ranked, target_nodes_of(g, maxn))

\* the initial direction: the normalised hash pair, or the golden-angle
\* fallback by index when the pair is (nearly) zero
initial_direction(id, index) ==
    LET j == stable_pair(id)
    IN  IF (j[1] * j[1]) + (j[2] * j[2]) = 0 THEN <<"angle", index>>
        ELSE <<"unit", j[1], j[2]>>

make_render_node(id, index, metric_value, base_radius, is_root) ==
    [ id           |-> id,
      world_pos    |-> 0,
      velocity     |-> [ dir   |-> initial_direction(id, index),
                         speed |-> IF is_root THEN 0
                                   ELSE 1150 + ((base_radius * 22) \div 1000) ],
      metric_value |-> metric_value,
      base_radius  |-> base_radius ]

RECURSIVE InsertEdge(_, _)
InsertEdge(e, s) ==
    IF s = <<>> THEN <<e>>
    ELSE IF s[1][1] < e[1] \/ (s[1][1] = e[1] /\ s[1][2] <= e[2])
         THEN <<s[1]>> \o InsertEdge(e, Tail(s))
    ELSE <<e>> \o s

RECURSIVE SortEdges(_)
\* edges.sort_unstable() on (usize, usize) pairs
SortEdges(s) ==
    IF s = <<>> THEN <<>>
    ELSE InsertEdge(s[Len(s)], SortEdges(SubSeq(s, 1, Len(s) - 1)))

RECURSIVE Dedup(_)
\* Vec::dedup : drop every element equal to its predecessor
Dedup(s) ==
    IF Len(s) <= 1 THEN s
    ELSE LET rest == Dedup(Tail(s))
         IN  IF s[1] = rest[1] THEN rest ELSE <<s[1]>> \o rest

RECURSIVE EdgesOfSource(_, _, _)
\* the inner loop of collect_edges over one node's references
EdgesOfSource(source_index, refs, index_by_id) ==
    IF refs = <<>> THEN <<>>
    ELSE (IF refs[1] \in DOMAIN index_by_id /\ source_index # index_by_id[refs[1]]
          THEN << <<source_index, index_by_id[refs[1]]>> >> ELSE <<>>)
         \o EdgesOfSource(source_index, Tail(refs), index_by_id)

RECURSIVE RawEdges(_, _, _, _)
\* the outer loop of collect_edges over ids (position k, 1-based)
RawEdges(g, ids, index_by_id, k) ==
    IF k > Len(ids) THEN <<>>
    ELSE (IF ids[k] \in DOMAIN g.nodes
          THEN EdgesOfSource(k - 1, g.nodes[ids[k]].references, index_by_id)
          ELSE <<>>)
         \o RawEdges(g, ids, index_by_id, k + 1)

\* the edges in the order they are found
collect_edges_unsorted(g, ids, index_by_id) == Dedup(RawEdges(g, ids, index_by_id, 1))

collect_edges(g, ids, index_by_id) == Dedup(SortEdges(RawEdges(g, ids, index_by_id, 1)))

RECURSIVE PushAdjacency(_, _, _)
\* the loop filling outgoing and incoming from the edge list
PushAdjacency(edges, n, adj) ==
    IF edges = <<>> THEN adj
    ELSE LET source == edges[1][1]
             target == edges[1][2]
         IN  PushAdjacency(Tail(edges), n,
               IF source < n /\ target < n
               THEN [ outgoing |-> [adj.outgoing EXCEPT ![source + 1] = Append(@, target)],
                      incoming |-> [adj.incoming EXCEPT ![target + 1] = Append(@, source)] ]
               ELSE adj)

build_adjacency(edges, n) ==
    PushAdjacency(edges, n, [ outgoing |-> [i \in 1..n |-> <<>>],
                              incoming |-> [i \in 1..n |-> <<>>] ])

\* prior_nodes.remove(id): the node of the previous render graph with this id
prior_node(prev, id) ==
    IF IsSome(prev) /\ \E i \in DOMAIN prev[1].nodes : prev[1].nodes[i].id = id
    THEN Some(prev[1].nodes[CHOOSE i \in DOMAIN prev[1].nodes : prev[1].nodes[i].id = id])
    ELSE None

\* an entry that always starts from the initial state
next_node_fresh(prev, id, index, metric_value, base_radius, is_root) ==
    make_render_node(id, index, metric_value, base_radius, is_root)

\* one entry of next_nodes
next_node(prev, id, index, metric_value, base_radius, is_root) ==
    IF IsSome(prior_node(prev, id))
    THEN [prior_node(prev, id)[1] EXCEPT !.metric_value = metric_value,
                                          !.base_radius = base_radius]
    ELSE make_render_node(id, index, metric_value, base_radius, is_root)

\* rebuild_render_graph, as a function of the view model fields it reads;
\* the result is the new graph_cache
rebuild_render_graph(g, order, m, min_mb, maxn, sel, prev) ==
    LET ids == filtered_node_ids(g, order, m, min_mb, maxn, sel)
        n == Len(ids)
        metrics == [k \in 1..n |->
                      IF ids[k] \in DOMAIN g.nodes
                      THEN Max2(node_metric(g.nodes[ids[k]], m), 1) ELSE 1]
        min_metric == CHOOSE x \in Range(metrics) : \A y \in Range(metrics) : x <= y
        max_metric == CHOOSE x \in Range(metrics) : \A y \in Range(metrics) : x >= y
        node_radii == [k \in 1..n |-> node_radius(metrics[k], min_metric, max_metric)]
        index_by_id == [id \in Range(ids) |-> (CHOOSE k \in 1..n : ids[k] = id) - 1]
        root_index == IF g.root_id \in DOMAIN index_by_id
                      THEN Some(index_by_id[g.root_id]) ELSE None
        edges == collect_edges(g, ids, index_by_id)
        adj == build_adjacency(edges, n)
    IN  IF ids = <<>> THEN None
        ELSE Some([ nodes       |-> [k \in 1..n |->
                                       next_node(prev, ids[k], k - 1, metrics[k],
                                                 node_radii[k], root_index = Some(k - 1))],
                    edges       |-> edges,
                    index_by_id |-> index_by_id,
                    outgoing    |-> adj.outgoing,
                    incoming    |-> adj.incoming,
                    root_index  |-> root_index,
                    min_metric  |-> min_metric,
                    max_metric  |-> max_metric,
                    draw_order  |-> IF IsSome(prev) THEN prev[1].draw_order ELSE <<>>,
                    draw_order_dirty |-> TRUE ])

---------------------------------------------------------------------------
(* ui/panels.rs: set_selected and include_node_in_current_graph *)

\* an add_edge that leaves the incoming list alone
add_edge_outgoing_only(cache, source, target) ==
    IF source = target THEN cache
    ELSE IF source + 1 \in DOMAIN cache.outgoing /\ Contains(cache.outgoing[source + 1], target)
    THEN cache
    ELSE [cache EXCEPT !.edges = Append(@, <<source, target>>),
                       !.outgoing[source + 1] = Append(@, target)]

\* the add_edge closure: no self loop, no edge already in outgoing[source]
add_edge(cache, source, target) ==
    IF source = target THEN cache
    ELSE IF source + 1 \in DOMAIN cache.outgoing /\ Contains(cache.outgoing[source + 1], target)
    THEN cache
    ELSE [cache EXCEPT !.edges = Append(@, <<source, target>>),
                       !.outgoing[source + 1] = Append(@, target),
                       !.incoming[target + 1] = Append(@, source)]

RECURSIVE AddForwardEdges(_, _, _)
\* for target_id in &node.references
AddForwardEdges(cache, refs, new_index) ==
    IF refs = <<>> THEN cache
    ELSE AddForwardEdges(IF refs[1] \in DOMAIN cache.index_by_id
                         THEN add_edge(cache, new_index, cache.index_by_id[refs[1]])
                         ELSE cache,
                         Tail(refs), new_index)

\* an inclusion without the scan for nodes that refer to the new node
AddReverseEdges_skipped(cache, g, order, node_id, new_index) == cache

RECURSIVE AddReverseEdges(_, _, _, _, _)
\* for (source_id, source_node) in &self.graph.nodes, in iteration order
AddReverseEdges(cache, g, order, node_id, new_index) ==
    IF order = <<>> THEN cache
    ELSE LET source_id == order[1]
         IN  AddReverseEdges(
               IF /\ source_id # node_id
                  /\ source_id \in DOMAIN cache.index_by_id
                  /\ Contains(g.nodes[source_id].references, node_id)
               THEN add_edge(cache, cache.index_by_id[source_id], new_index)
               ELSE cache,
               g, Tail(order), node_id, new_index)

\* an inclusion that widens min_metric and max_metric to the new node
append_node_rescaling(g, order, m, cache, node_id) ==
    LET metric_value == Max2(node_metric(g.nodes[node_id], m), 1)
        new_index == Len(cache.nodes)
        pushed == [cache EXCEPT
                     !.nodes = Append(@, make_render_node(node_id, new_index, metric_value,
                                         node_radius(metric_value, cache.min_metric,
                                                     cache.max_metric), FALSE)),
                     !.index_by_id = [id \in DOMAIN cache.index_by_id \cup {node_id} |->
                                        IF id = node_id THEN new_index ELSE cache.index_by_id[id]],
                     !.outgoing = Append(@, <<>>),
                     !.incoming = Append(@, <<>>),
                     !.root_index = IF g.root_id = node_id THEN Some(new_index) ELSE @,
                     !.min_metric = Min2(@, metric_value),
                     !.max_metric = Max2(@, metric_value)]
    IN  AddReverseEdges(AddForwardEdges(pushed, g.nodes[node_id].references, new_index),
                        g, order, node_id, new_index)

\* an inclusion that pushes the node and leaves index_by_id alone
append_node_unindexed(g, order, m, cache, node_id) ==
    [cache EXCEPT
       !.nodes = Append(@, make_render_node(node_id, Len(cache.nodes),
                                            Max2(node_metric(g.nodes[node_id], m), 1),
                                            node_radius(Max2(node_metric(g.nodes[node_id], m), 1),
                                                        cache.min_metric, cache.max_metric),
                                            FALSE)),
       !.outgoing = Append(@, <<>>),
       !.incoming = Append(@, <<>>)]

\* the body of include_node_in_current_graph once the early returns are passed
append_node(g, order, m, cache, node_id) ==
    LET node == g.nodes[node_id]
        metric_value == Max2(node_metric(node, m), 1)
        base_radius == node_radius(metric_value, cache.min_metric, cache.max_metric)
        new_index == Len(cache.nodes)
        pushed == [cache EXCEPT
                     !.nodes = Append(@, [ id           |-> node_id,
                                           world_pos    |-> 0,
                                           velocity     |-> [ dir   |-> initial_direction(node_id, new_index),
                                                              speed |-> 1150 + ((base_radius * 22) \div 1000) ],
                                           metric_value |-> metric_value,
                                           base_radius  |-> base_radius ]),
                     !.index_by_id = [id \in DOMAIN cache.index_by_id \cup {node_id} |->
                                        IF id = node_id THEN new_index ELSE cache.index_by_id[id]],
                     !.outgoing = Append(@, <<>>),
                     !.incoming = Append(@, <<>>),
                     !.root_index = IF g.root_id = node_id THEN Some(new_index) ELSE @]
    IN  AddReverseEdges(AddForwardEdges(pushed, node.references, new_index),
                        g, order, node_id, new_index)

\* an inclusion without the early return for an id already in the graph
include_node_unchecked(g, order, m, cache_opt, node_id) ==
    IF node_id \notin DOMAIN g.nodes THEN cache_opt
    ELSE IF ~IsSome(cache_opt) THEN cache_opt
    ELSE Some(append_node(g, order, m, cache_opt[1], node_id))

\* include_node_in_current_graph: the new graph_cache
include_node_in_current_graph(g, order, m, cache_opt, node_id) ==
    IF node_id \notin DOMAIN g.nodes THEN cache_opt
    ELSE IF ~IsSome(cache_opt) THEN cache_opt
    ELSE IF node_id \in DOMAIN cache_opt[1].index_by_id THEN cache_opt
    ELSE Some(append_node(g, order, m, cache_opt[1], node_id))

---------------------------------------------------------------------------
(* graph/view.rs: the draw order *)

RECURSIVE InsertByMetric(_, _, _)
\* the place of `index` in a sorted order: after every index whose
\* metric_value is not greater
InsertByMetric(index, order, nodes) ==
    IF order = <<>> THEN <<index>>
    ELSE IF nodes[order[1] + 1].metric_value <= nodes[index + 1].metric_value
         THEN <<order[1]>> \o InsertByMetric(index, Tail(order), nodes)
    ELSE <<index>> \o order

RECURSIVE SortByMetric(_, _)
\* draw_order.sort_by(metric_value): a stable sort
SortByMetric(order, nodes) ==
    IF order = <<>> THEN <<>>
    ELSE InsertByMetric(order[Len(order)],
                        SortByMetric(SubSeq(order, 1, Len(order) - 1), nodes), nodes)

\* the early return of ensure_draw_order: the order it has is kept
draw_order_is_current(cache) ==
    ~cache.draw_order_dirty /\ Len(cache.draw_order) = Len(cache.nodes)

\* an ensure_draw_order that looks at the flag alone
ensure_draw_order_by_flag(cache) ==
    IF ~cache.draw_order_dirty THEN cache
    ELSE [cache EXCEPT
            !.draw_order = SortByMetric([k \in 1..Len(cache.nodes) |-> k - 1], cache.nodes),
            !.draw_order_dirty = FALSE]

\* ensure_draw_order
ensure_draw_order(cache) ==
    IF draw_order_is_current(cache) THEN cache
    ELSE [cache EXCEPT
            !.draw_order = SortByMetric([k \in 1..Len(cache.nodes) |-> k - 1], cache.nodes),
            !.draw_order_dirty = FALSE]

---------------------------------------------------------------------------
(* graph/view.rs: the search-match cache *)

ToLower(c) == CASE c = "A" -> "a" [] c = "B" -> "b" [] OTHER -> c

LowerText(t) == [i \in 1..Len(t) |-> ToLower(t[i])]

RECURSIVE IsSubsequence(_, _)
\* every character of pattern occurs in text, in order
IsSubsequence(pattern, text) ==
    IF pattern = <<>> THEN TRUE
    ELSE IF text = <<>> THEN FALSE
    ELSE IF pattern[1] = text[1] THEN IsSubsequence(Tail(pattern), Tail(text))
    ELSE IsSubsequence(pattern, Tail(text))

\* SkimMatcherV2::fuzzy_match with smart case: a pattern without upper-case
\* characters is matched ignoring the case of the text
fuzzy_match(text, pattern) ==
    IF LowerText(pattern) = pattern THEN IsSubsequence(pattern, LowerText(text))
    ELSE IsSubsequence(pattern, text)

\* fuzzy_match_score(..).is_some()
fuzzy_match_score(text, query) ==
    fuzzy_match(text, query) \/ fuzzy_match(LowerText(text), LowerText(query))

RECURSIVE TrimStart(_)
TrimStart(t) == IF t # <<>> /\ t[1] = " " THEN TrimStart(Tail(t)) ELSE t

\* str::trim
Trim(t) == Reverse(TrimStart(Reverse(TrimStart(t))))

\* the indices of the render nodes whose short name matches the query
match_indices(nodes, query) ==
    {i - 1 : i \in {k \in DOMAIN nodes : fuzzy_match_score(short_name(IdText[nodes[k].id]), query)}}

\* cached_pseudo_matches: the returned value, whether it was taken from the
\* cache, and the search_match_cache it leaves behind
cached_pseudo_matches(sel, srch, smc, rev, cache_opt) ==
    LET search_query == Trim(srch)
        miss == [result |-> None, reused |-> FALSE, cache |-> smc]
    IN  IF IsSome(sel) THEN miss
        ELSE IF search_query = <<>> THEN miss
        ELSE IF IsSome(smc) /\ smc[1].graph_revision = rev /\ smc[1].query = search_query
        THEN [result |-> Some(smc[1].matches), reused |-> TRUE, cache |-> smc]
        ELSE IF ~IsSome(cache_opt) THEN miss
        ELSE LET matches == match_indices(cache_opt[1].nodes, search_query)
             IN  [ result |-> Some(matches),
                   reused |-> FALSE,
                   cache  |-> Some([ query          |-> search_query,
                                     graph_revision |-> rev,
                                     matches        |-> matches ]) ]

---------------------------------------------------------------------------
(* nix/graph.rs: shortest_path_from_root *)

RECURSIVE BfsVisit_revisiting(_, _, _, _)
\* the loop without the visited.insert test
BfsVisit_revisiting(g, current, refs, st) ==
    IF refs = <<>> THEN st
    ELSE BfsVisit_revisiting(g, current, Tail(refs),
           [ queue   |-> Append(st.queue, refs[1]),
             visited |-> st.visited \cup {refs[1]},
             parent  |-> [id \in DOMAIN st.parent \cup {refs[1]} |->
                            IF id = refs[1] THEN current ELSE st.parent[id]] ])

RECURSIVE BfsVisit(_, _, _, _)
\* for next in &node.references : first discovery records the parent
BfsVisit(g, current, refs, st) ==
    IF refs = <<>> THEN st
    ELSE BfsVisit(g, current, Tail(refs),
           IF refs[1] \notin DOMAIN g.nodes THEN st
           ELSE IF refs[1] \in st.visited THEN st
           ELSE [ queue   |-> Append(st.queue, refs[1]),
                  visited |-> st.visited \cup {refs[1]},
                  parent  |-> [id \in DOMAIN st.parent \cup {refs[1]} |->
                                 IF id = refs[1] THEN current ELSE st.parent[id]] ])

RECURSIVE BfsLoop(_, _, _)
\* while let Some(current) = queue.pop_front()
BfsLoop(g, target, st) ==
    IF st.queue = <<>> THEN st
    ELSE LET current == st.queue[1]
             popped == [st EXCEPT !.queue = Tail(@)]
         IN  IF current = target THEN popped
             ELSE IF current \notin DOMAIN g.nodes THEN BfsLoop(g, target, popped)
             ELSE BfsLoop(g, target, BfsVisit(g, current, g.nodes[current].references, popped))

RECURSIVE WalkParents(_, _, _, _)
\* while cursor != root { cursor = *parent.get(cursor)?; path.push(cursor) }
WalkParents(parent, root, cursor, path) ==
    IF cursor = root THEN Some(path)
    ELSE IF cursor \notin DOMAIN parent THEN None
    ELSE WalkParents(parent, root, parent[cursor], Append(path, parent[cursor]))

\* the walked path without path.reverse()
path_from_parents_unreversed(walked) == walked

\* the path read back from the parent map, root first
path_from_parents(walked) ==
    IF IsSome(walked) THEN Some(Reverse(walked[1])) ELSE None

\* the end of shortest_path_from_root, after the search
path_after_search(g, target, st) ==
    IF target \notin st.visited THEN None
    ELSE path_from_parents(WalkParents(st.parent, g.root_id, target, <<target>>))

shortest_path_from_root(g, target) ==
    IF target \notin DOMAIN g.nodes THEN None
    ELSE IF target = g.root_id THEN Some(<<g.root_id>>)
    ELSE path_after_search(g, target,
           BfsLoop(g, target, [ queue   |-> <<g.root_id>>,
                                visited |-> {g.root_id},
                                parent  |-> [id \in {} |-> 0] ]))

---------------------------------------------------------------------------
(* highlight/collect.rs and highlight/mod.rs *)

RELATED_DEPTH == 1

RELATED_NODE_LIMIT == 280

RELATED_NEIGHBOR_TAKE == 160

\* one iteration of the loop over the neighbours without the test of
\* related_nodes.len()
CollectStep_unlimited(node_id, depth, next_id, forward, index_by_id, st) ==
    LET source_id == IF forward THEN node_id ELSE next_id
        target_id == IF forward THEN next_id ELSE node_id
        src == IF source_id \in DOMAIN index_by_id THEN {index_by_id[source_id]} ELSE {}
        tgt == IF target_id \in DOMAIN index_by_id THEN {index_by_id[target_id]} ELSE {}
    IN  [ queue         |-> IF next_id \in st.visited THEN st.queue
                            ELSE Append(st.queue, <<next_id, depth + 1>>),
          visited       |-> st.visited \cup {next_id},
          related_nodes |-> st.related_nodes \cup src \cup tgt,
          related_edges |-> st.related_edges \cup (src \X tgt),
          done          |-> FALSE ]

\* one iteration of for next_id in neighbors; st.done is the early return
CollectStep(node_id, depth, next_id, forward, index_by_id, st) ==
    LET source_id == IF forward THEN node_id ELSE next_id
        target_id == IF forward THEN next_id ELSE node_id
        src == IF source_id \in DOMAIN index_by_id THEN {index_by_id[source_id]} ELSE {}
        tgt == IF target_id \in DOMAIN index_by_id THEN {index_by_id[target_id]} ELSE {}
        nodes1 == st.related_nodes \cup src \cup tgt
        edges1 == st.related_edges \cup (src \X tgt)
    IN  IF Cardinality(nodes1) >= RELATED_NODE_LIMIT
        THEN [st EXCEPT !.related_nodes = nodes1, !.related_edges = edges1, !.done = TRUE]
        ELSE [ queue         |-> IF next_id \in st.visited THEN st.queue
                                 ELSE Append(st.queue, <<next_id, depth + 1>>),
               visited       |-> st.visited \cup {next_id},
               related_nodes |-> nodes1,
               related_edges |-> edges1,
               done          |-> FALSE ]

RECURSIVE CollectNeighbors(_, _, _, _, _, _)
\* for next_id in neighbors.iter().take(160): the iterations in order up to
\* the early return (the sequence is halved to keep the evaluation shallow)
CollectNeighbors(node_id, depth, neighbors, forward, index_by_id, st) ==
    IF st.done \/ neighbors = <<>> THEN st
    ELSE IF Len(neighbors) = 1
         THEN CollectStep(node_id, depth, neighbors[1], forward, index_by_id, st)
    ELSE LET half == Len(neighbors) \div 2
         IN  CollectNeighbors(node_id, depth, SubSeq(neighbors, half + 1, Len(neighbors)),
                              forward, index_by_id,
               CollectNeighbors(node_id, depth, SubSeq(neighbors, 1, half),
                                forward, index_by_id, st))

\* the queue after the leading entries that the loop pops and skips
\* (if depth >= RELATED_DEPTH { continue; })
SkipDeep(queue) ==
    LET shallow == {i \in DOMAIN queue : queue[i][2] < RELATED_DEPTH}
    IN  IF shallow = {} THEN <<>>
        ELSE SubSeq(queue, CHOOSE i \in shallow : \A j \in shallow : i <= j, Len(queue))

RECURSIVE CollectLoop(_, _, _, _)
\* while let Some((node_id, depth)) = queue.pop_front()
CollectLoop(g, forward, index_by_id, st) ==
    IF st.done \/ SkipDeep(st.queue) = <<>> THEN st
    ELSE LET queue == SkipDeep(st.queue)
             node_id == queue[1][1]
             depth == queue[1][2]
             popped == [st EXCEPT !.queue = Tail(queue)]
         IN  IF node_id \notin DOMAIN g.nodes THEN CollectLoop(g, forward, index_by_id, popped)
             ELSE LET all == IF forward THEN g.nodes[node_id].references
                             ELSE g.nodes[node_id].referrers
                      neighbors == SubSeq(all, 1, Min2(Len(all), RELATED_NEIGHBOR_TAKE))
                  IN  CollectLoop(g, forward, index_by_id,
                        CollectNeighbors(node_id, depth, neighbors, forward, index_by_id, popped))

\* the two sets collect_related_paths_by_id has filled
related_sets(st) ==
    [related_nodes |-> st.related_nodes, related_edges |-> st.related_edges]

\* collect_related_paths_by_id: the related node and edge sets after the pass
collect_related_paths_by_id(g, selected_id, forward, index_by_id, related_nodes, related_edges) ==
    related_sets(CollectLoop(g, forward, index_by_id,
                   [ queue         |-> << <<selected_id, 0>> >>,
                     visited       |-> {selected_id},
                     related_nodes |-> related_nodes,
                     related_edges |-> related_edges,
                     done          |-> FALSE ]))

\* the second pass (referrers), which extends the sets of the first
collect_reverse_paths(g, selected_id, index_by_id, fwd) ==
    collect_related_paths_by_id(g, selected_id, FALSE, index_by_id,
                                fwd.related_nodes, fwd.related_edges)

\* root_path_nodes: the ids of the path that the render graph holds
root_path_nodes_of(cache, path) ==
    {cache.index_by_id[id] : id \in Range(path) \cap DOMAIN cache.index_by_id}

\* root_path_edges: the consecutive pairs of the path with both ends in the render graph
root_path_edges_of(cache, path) ==
    {<<cache.index_by_id[path[k]], cache.index_by_id[path[k + 1]]>> :
       k \in {j \in 1..(Len(path) - 1) :
                /\ path[j] \in DOMAIN cache.index_by_id
                /\ path[j + 1] \in DOMAIN cache.index_by_id}}

\* the HighlightState built from the related sets and the root path
highlight_state(cache, related, path_opt) ==
    Some([ related_nodes   |-> related.related_nodes,
           related_edges   |-> related.related_edges,
           root_path_nodes |-> IF IsSome(path_opt)
                               THEN root_path_nodes_of(cache, path_opt[1]) ELSE {},
           root_path_edges |-> IF IsSome(path_opt)
                               THEN root_path_edges_of(cache, path_opt[1]) ELSE {} ])

build_highlight_state_for_selected_id(g, cache, selected_id) ==
    IF selected_id \notin DOMAIN g.nodes THEN None
    ELSE highlight_state(cache,
           collect_reverse_paths(g, selected_id, cache.index_by_id,
             collect_related_paths_by_id(g, selected_id, TRUE, cache.index_by_id, {}, {})),
           shortest_path_from_root(g, selected_id))

---------------------------------------------------------------------------
(* ui/details.rs: the details-panel cache *)

DETAILS_RELATED_LIMIT == 32

\* the comparator of related.sort_by: a sorts before b
RelatedBefore(a, b) ==
    IF a.is_in_view # b.is_in_view THEN a.is_in_view
    ELSE IF a.is_root_path # b.is_root_path THEN a.is_root_path
    ELSE IF a.is_direct # b.is_direct THEN a.is_direct
    ELSE IF a.metric_value # b.metric_value THEN a.metric_value > b.metric_value
    ELSE a.id < b.id

RECURSIVE SortRelated(_)
SortRelated(S) ==
    IF S = {} THEN <<>>
    ELSE LET first == CHOOSE a \in S : \A b \in S \ {a} : RelatedBefore(a, b)
         IN  <<first>> \o SortRelated(S \ {first})

\* the references and referrers of the selection that are nodes of the graph
direct_related_ids(g, selected_id) ==
    IF selected_id \in DOMAIN g.nodes
    THEN {id \in Range(g.nodes[selected_id].references)
                 \cup Range(g.nodes[selected_id].referrers) :
            id # selected_id /\ id \in DOMAIN g.nodes}
    ELSE {}

\* the nodes of the shortest path other than the selection
path_related_ids(g, selected_id, path_opt) ==
    IF IsSome(path_opt)
    THEN {id \in Range(path_opt[1]) : id # selected_id /\ id \in DOMAIN g.nodes}
    ELSE {}

\* the indices of the highlight state other than the selection's
view_indices_of(cache_opt, highlight, selected_id) ==
    IF IsSome(highlight)
    THEN {i \in highlight[1].root_path_nodes \cup highlight[1].related_nodes :
            /\ i # cache_opt[1].index_by_id[selected_id]
            /\ i + 1 \in DOMAIN cache_opt[1].nodes}
    ELSE {}

\* the flags of one related id
related_entry(g, m, cache_opt, highlight, view_indices, direct_ids, path_ids, selected_id, id) ==
    LET cache == cache_opt[1]
        selected_index == cache.index_by_id[selected_id]
        direct_indices == Range(cache.outgoing[selected_index + 1])
                             \cup Range(cache.incoming[selected_index + 1])
        in_view == \E i \in view_indices : cache.nodes[i + 1].id = id
        index_of == CHOOSE i \in view_indices : cache.nodes[i + 1].id = id
    IN  [ id           |-> id,
          metric_value |-> IF id \in DOMAIN g.nodes THEN node_metric(g.nodes[id], m)
                           ELSE cache.nodes[index_of + 1].metric_value,
          is_root_path |-> \/ id \in path_ids
                           \/ in_view /\ index_of \in highlight[1].root_path_nodes,
          is_direct    |-> \/ id \in direct_ids
                           \/ in_view /\ index_of \in direct_indices,
          is_in_view   |-> in_view ]

\* related_by_id: one entry per related id
related_entries(g, m, cache_opt, highlight, view_indices, direct_ids, path_ids, selected_id) ==
    {related_entry(g, m, cache_opt, highlight, view_indices, direct_ids, path_ids,
                   selected_id, id) :
       id \in direct_ids \cup path_ids
                \cup {cache_opt[1].nodes[i + 1].id : i \in view_indices}}

\* the entries once the highlight state of the selection is known
related_with_highlight(g, m, cache_opt, highlight, selected_id, path_opt) ==
    related_entries(g, m, cache_opt, highlight,
                    view_indices_of(cache_opt, highlight, selected_id),
                    direct_related_ids(g, selected_id),
                    path_related_ids(g, selected_id, path_opt),
                    selected_id)

\* related.truncate(limit)
Truncate(s, limit) == SubSeq(s, 1, Min2(Len(s), limit))

related_nodes_for_details(g, m, cache_opt, selected_id, limit, path_opt) ==
    IF limit = 0 THEN <<>>
    ELSE Truncate(
           SortRelated(
             related_with_highlight(g, m, cache_opt,
               IF IsSome(cache_opt) /\ selected_id \in DOMAIN cache_opt[1].index_by_id
               THEN build_highlight_state_for_selected_id(g, cache_opt[1], selected_id)
               ELSE None,
               selected_id, path_opt)),
           limit)

\* the pair details_panel_data computes once the shortest path is known
details_with_path(g, m, cache_opt, selected_id, related_limit, path_opt) ==
    [ related_nodes           |-> related_nodes_for_details(g, m, cache_opt, selected_id,
                                                            related_limit, path_opt),
      shortest_path_from_root |-> path_opt ]

\* what details_panel_data computes on a cache miss
fresh_details(g, m, cache_opt, selected_id, related_limit) ==
    details_with_path(g, m, cache_opt, selected_id, related_limit,
                      shortest_path_from_root(g, selected_id))

\* DetailsPanelCacheKey
details_key(m, rev, selected_id, related_limit) ==
    [ selected_id           |-> selected_id,
      metric                |-> m,
      render_graph_revision |-> rev,
      related_limit         |-> related_limit ]

\* a cache miss: the fresh data is stored under the key and returned
details_miss(key, fresh) ==
    [ result |-> fresh,
      reused |-> FALSE,
      cache  |-> Some([ key                     |-> key,
                        related_nodes           |-> fresh.related_nodes,
                        shortest_path_from_root |-> fresh.shortest_path_from_root ]) ]

\* details_panel_data: the returned pair, whether it was taken from the cache,
\* and the details_panel_cache it leaves behind
details_panel_data(g, m, rev, cache_opt, dpc, selected_id, related_limit) ==
    IF IsSome(dpc) /\ dpc[1].key = details_key(m, rev, selected_id, related_limit)
    THEN [ result |-> [ related_nodes           |-> dpc[1].related_nodes,
                        shortest_path_from_root |-> dpc[1].shortest_path_from_root ],
           reused |-> TRUE,
           cache  |-> dpc ]
    ELSE details_miss(details_key(m, rev, selected_id, related_limit),
                      fresh_details(g, m, cache_opt, selected_id, related_limit))

---------------------------------------------------------------------------
(* physics/mod.rs: what a step writes.  The force model is not part of this
   state machine: a step is recorded per node as one more integration of
   world_pos and one more damping of velocity. *)

step_physics_effect(cache) ==
    IF Len(cache.nodes) < 2 THEN cache
    ELSE [cache EXCEPT !.nodes = [k \in DOMAIN cache.nodes |->
                                    [cache.nodes[k] EXCEPT !.world_pos = @ + 1,
                                                           !.velocity.speed = @ \div 2]]]

---------------------------------------------------------------------------
(* physics/quadtree.rs.  A coordinate is an integer number of model units,
   WorldUnit of them to 1.0; the inputs are positions for which every
   halving the code performs is exact in these units, as it is in f32. *)

QUADTREE_LEAF_CAPACITY == 12

QUADTREE_MAX_DEPTH == 10

\* 1.0 in model units
WorldUnit == 2048

\* Vec2::length_sq
length_sq_of(delta) == (delta[1] * delta[1]) + (delta[2] * delta[2])

\* the least and the greatest of a non-empty sequence of numbers
MinOf(s) == CHOOSE x \in Range(s) : \A y \in Range(s) : x <= y

MaxOf(s) == CHOOSE x \in Range(s) : \A y \in Range(s) : x >= y

\* f32::INFINITY: a number above every coordinate
INFINITY == 1073741824

\* f32::NEG_INFINITY
NEG_INFINITY == -INFINITY

\* f32::NAN: a value apart from the numbers and the infinities
NAN == INFINITY + 1

\* f32::is_finite
is_finite(x) == x \notin {NAN, INFINITY, NEG_INFINITY}

\* f32::min: the lesser of two numbers; the other argument when one is NaN
f32_min(a, b) == IF a = NAN THEN b ELSE IF b = NAN THEN a ELSE Min2(a, b)

\* f32::max: the greater of two numbers; the other argument when one is NaN
f32_max(a, b) == IF a = NAN THEN b ELSE IF b = NAN THEN a ELSE Max2(a, b)

RECURSIVE min_over(_, _)
\* min = min.min(value) over the values, in order
min_over(values, min) ==
    IF values = <<>> THEN min ELSE min_over(Tail(values), f32_min(min, values[1]))

RECURSIVE max_over(_, _)
\* max = max.max(value) over the values, in order
max_over(values, max) ==
    IF values = <<>> THEN max ELSE max_over(Tail(values), f32_max(max, values[1]))

\* QuadBounds::from_points: None when a minimum or a maximum is not finite,
\* else the square around the bounding box with a margin of 1.0
from_points(points) ==
    LET xs == [i \in DOMAIN points |-> points[i][1]]
        ys == [i \in DOMAIN points |-> points[i][2]]
        min == <<min_over(xs, INFINITY), min_over(ys, INFINITY)>>
        max == <<max_over(xs, NEG_INFINITY), max_over(ys, NEG_INFINITY)>>
        span_x == Max2(max[1] - min[1], WorldUnit)
        span_y == Max2(max[2] - min[2], WorldUnit)
    IN  IF ~is_finite(min[1]) \/ ~is_finite(min[2])
           \/ ~is_finite(max[1]) \/ ~is_finite(max[2])
        THEN None
        ELSE Some([ center      |-> <<(min[1] + max[1]) \div 2, (min[2] + max[2]) \div 2>>,
                    half_extent |-> (Max2(span_x, span_y) \div 2) + WorldUnit ])

\* QuadBounds::contains
contains(bounds, point) ==
    /\ point[1] >= bounds.center[1] - bounds.half_extent
    /\ point[1] <= bounds.center[1] + bounds.half_extent
    /\ point[2] >= bounds.center[2] - bounds.half_extent
    /\ point[2] <= bounds.center[2] + bounds.half_extent

\* a child on the opposite side of the centre of its parent
child_mirrored(bounds, quadrant) ==
    LET quarter == bounds.half_extent \div 2
        offset == CASE quadrant = 0 -> <<quarter, quarter>>
                    [] quadrant = 1 -> <<-quarter, quarter>>
                    [] quadrant = 2 -> <<quarter, -quarter>>
                    [] OTHER        -> <<-quarter, -quarter>>
    IN  [ center      |-> <<bounds.center[1] + offset[1], bounds.center[2] + offset[2]>>,
          half_extent |-> quarter ]

\* QuadBounds::child
child(bounds, quadrant) ==
    LET quarter == bounds.half_extent \div 2
        offset == CASE quadrant = 0 -> <<-quarter, -quarter>>
                    [] quadrant = 1 -> <<quarter, -quarter>>
                    [] quadrant = 2 -> <<-quarter, quarter>>
                    [] OTHER        -> <<quarter, quarter>>
    IN  [ center      |-> <<bounds.center[1] + offset[1], bounds.center[2] + offset[2]>>,
          half_extent |-> quarter ]

\* QuadBounds::quadrant_for
quadrant_for(bounds, point) ==
    LET right == point[1] # NAN /\ point[1] >= bounds.center[1]
        upper == point[2] # NAN /\ point[2] >= bounds.center[2]
    IN  CASE ~right /\ ~upper -> 0
          [] right /\ ~upper  -> 1
          [] ~right /\ upper  -> 2
          [] OTHER            -> 3

\* the distance between the centres of two cells
distance_sq_to_centers(bounds, other) ==
    length_sq_of(<<bounds.center[1] - other.center[1], bounds.center[2] - other.center[2]>>)

\* QuadBounds::distance_sq_to: the square of the gap between two cells,
\* 0 when they touch or overlap
distance_sq_to(bounds, other) ==
    LET abs(x) == IF x < 0 THEN -x ELSE x
        dx == abs(bounds.center[1] - other.center[1])
                 - (bounds.half_extent + other.half_extent)
        dy == abs(bounds.center[2] - other.center[2])
                 - (bounds.half_extent + other.half_extent)
    IN  length_sq_of(<<Max2(dx, 0), Max2(dy, 0)>>)

\* QuadBounds::side_length
side_length(bounds) == bounds.half_extent * 2

\* a bucket that loses the points on the centre lines of the cell
bucket_losing_center(bounds, indices, positions, quadrant) ==
    SelectSeq(indices, LAMBDA index :
        /\ quadrant_for(bounds, positions[index + 1]) = quadrant
        /\ positions[index + 1][1] # bounds.center[1])

\* buckets[quadrant]: the indices pushed for one quadrant, in order
bucket(bounds, indices, positions, quadrant) ==
    SelectSeq(indices, LAMBDA index : quadrant_for(bounds, positions[index + 1]) = quadrant)

RECURSIVE SumSeq(_)
SumSeq(s) == IF s = <<>> THEN 0 ELSE s[1] + SumSeq(Tail(s))

\* the mean of the numbers (rounded down to a model unit), NaN when one
\* of them is NaN
mean_coordinate(values) ==
    IF NAN \in Range(values) THEN NAN ELSE SumSeq(values) \div Len(values)

\* center_of_mass: the mean of the positions of the indices, Vec2::ZERO
\* without indices
center_of_mass_of(indices, positions) ==
    IF indices = <<>> THEN <<0, 0>>
    ELSE <<mean_coordinate([k \in DOMAIN indices |-> positions[indices[k] + 1][1]]),
           mean_coordinate([k \in DOMAIN indices |-> positions[indices[k] + 1][2]])>>

\* the node before any subdivision: mass and centre of mass of its indices
undivided_node(bounds, indices, positions) ==
    [ bounds         |-> bounds,
      center_of_mass |-> center_of_mass_of(indices, positions),
      mass           |-> Len(indices),
      indices        |-> indices,
      children       |-> <<None, None, None, None>> ]

RECURSIVE build_node_splitting_single_quadrant(_, _, _, _)
\* a build_node that subdivides whenever the capacity is exceeded
build_node_splitting_single_quadrant(bounds, indices, positions, depth) ==
    LET node == undivided_node(bounds, indices, positions)
    IN  IF depth >= QUADTREE_MAX_DEPTH \/ Len(indices) <= QUADTREE_LEAF_CAPACITY THEN node
        ELSE [node EXCEPT
               !.children = [k \in 1..4 |->
                  IF bucket(bounds, indices, positions, k - 1) = <<>> THEN None
                  ELSE Some(build_node_splitting_single_quadrant(
                               child(bounds, k - 1),
                               bucket(bounds, indices, positions, k - 1),
                               positions, depth + 1))],
               !.indices = <<>>]

RECURSIVE build_node(_, _, _, _)
\* QuadNode::build_node; children[q + 1] is the child of quadrant q
build_node(bounds, indices, positions, depth) ==
    LET node == undivided_node(bounds, indices, positions)
        non_empty == Cardinality({q \in 0..3 : bucket(bounds, indices, positions, q) # <<>>})
    IN  IF depth >= QUADTREE_MAX_DEPTH \/ Len(indices) <= QUADTREE_LEAF_CAPACITY THEN node
        ELSE IF non_empty <= 1 THEN node
        ELSE [node EXCEPT
               !.children = [k \in 1..4 |->
                  IF bucket(bounds, indices, positions, k - 1) = <<>> THEN None
                  ELSE Some(build_node(child(bounds, k - 1),
                                       bucket(bounds, indices, positions, k - 1),
                                       positions, depth + 1))],
               !.indices = <<>>]

\* QuadNode::build
build(positions) ==
    IF from_points(positions) = None THEN None
    ELSE Some(build_node(from_points(positions)[1],
                         [k \in 1..Len(positions) |-> k - 1], positions, 0))

\* QuadNode::is_leaf
is_leaf(node) == \A k \in 1..4 : node.children[k] = None

---------------------------------------------------------------------------
(* physics/forces.rs: the repulsion query.  A force is the sequence of the
   terms added to it: <<"point", j, position>> for repulsion_between the
   query point and point j, <<"cell", mass, center_of_mass, bounds>> for
   the cell of these bounds taken as one mass.  theta is scaled by 1000. *)

BARNES_HUT_THETA == 720

RECURSIVE SqrtBetween(_, _, _)
\* the integer square root of n, looked for in lo..hi
SqrtBetween(n, lo, hi) ==
    IF lo >= hi THEN lo
    ELSE LET mid == (lo + hi + 1) \div 2
         IN  IF mid * mid <= n THEN SqrtBetween(n, mid, hi)
             ELSE SqrtBetween(n, lo, mid - 1)

\* f32::sqrt, rounded down to a model unit
Sqrt(n) == SqrtBetween(n, 0, 46340)

\* Vec2::length_sq of the difference of two points
length_sq(a, b) == ((a[1] - b[1]) * (a[1] - b[1])) + ((a[2] - b[2]) * (a[2] - b[2]))

\* a test that takes every cell outside of which the point lies as one mass
can_approximate_any_distance(node, point, theta) ==
    /\ ~contains(node.bounds, point)
    /\ node.mass > 1

\* can_approximate: the point lies outside the cell, the cell is narrow
\* seen from the point, and it holds more than one point
can_approximate(node, point, theta) ==
    LET distance_sq == Max2(length_sq(point, node.center_of_mass),
                            (WorldUnit * WorldUnit) \div 10000)
        distance == Max2(Sqrt(distance_sq), 1)
    IN  /\ ~contains(node.bounds, point)
        /\ side_length(node.bounds) * 1000 < theta * distance
        /\ node.mass > 1

\* a leaf that adds a term for every index it holds
leaf_terms_with_self(node, index, positions) ==
    [k \in DOMAIN node.indices |->
        <<"point", node.indices[k], positions[node.indices[k] + 1]>>]

\* the terms a leaf adds: one per index it holds other than the query index
leaf_terms(node, index, positions) ==
    LET others == SelectSeq(node.indices, LAMBDA other_index : other_index # index)
    IN  [k \in DOMAIN others |-> <<"point", others[k], positions[others[k] + 1]>>]

RECURSIVE accumulate_repulsion_for_node(_, _, _, _, _)
\* accumulate_repulsion_for_node; the result is the force after the call
accumulate_repulsion_for_node(node, index, positions, theta, force) ==
    IF node.mass <= 0 THEN force
    ELSE IF is_leaf(node) THEN force \o leaf_terms(node, index, positions)
    ELSE IF can_approximate(node, positions[index + 1], theta)
         THEN Append(force, <<"cell", node.mass, node.center_of_mass, node.bounds>>)
    ELSE LET into(k, f) == IF node.children[k] = None THEN f
                           ELSE accumulate_repulsion_for_node(node.children[k][1], index,
                                                              positions, theta, f)
         IN  into(4, into(3, into(2, into(1, force))))

\* the pairwise sum: repulsion_between the point and every other point
brute_force_repulsion(index, positions) ==
    LET others == SelectSeq([k \in 1..Len(positions) |-> k - 1],
                            LAMBDA other_index : other_index # index)
    IN  [k \in DOMAIN others |-> <<"point", others[k], positions[others[k] + 1]>>]

---------------------------------------------------------------------------
(* physics/forces.rs: the collision pass.  The forces are the sequence of
   the pushes applied: <<from, to>> for an overlap push added to
   forces[from] and subtracted from forces[to].  A radius is a number of
   model units that 4.2 times it is one too. *)

\* (radii[from] + radii[to]) * 4.2
min_distance(from, to, radii) == ((radii[from + 1] + radii[to + 1]) * 42) \div 10

\* if distance < min_distance: the pair is pushed apart
overlaps(from, to, positions, radii) ==
    Sqrt(length_sq(positions[from + 1], positions[to + 1])) < min_distance(from, to, radii)

\* the pushes of a leaf met with itself: for i, for j in (i + 1)..len
pushes_within(indices, positions, radii) ==
    LET n == Len(indices)
        first(k) == ((k - 1) \div n) + 1
        second(k) == ((k - 1) % n) + 1
        steps == SelectSeq([k \in 1..(n * n) |-> k], LAMBDA k :
                    /\ first(k) < second(k)
                    /\ overlaps(indices[first(k)], indices[second(k)], positions, radii))
    IN  [k \in DOMAIN steps |-> <<indices[first(steps[k])], indices[second(steps[k])]>>]

\* the pushes of two different leaves: for from in a, for to in b
pushes_across(indices_a, indices_b, positions, radii) ==
    LET n == Len(indices_b)
        first(k) == ((k - 1) \div n) + 1
        second(k) == ((k - 1) % n) + 1
        steps == SelectSeq([k \in 1..(Len(indices_a) * n) |-> k], LAMBDA k :
                    overlaps(indices_a[first(k)], indices_b[second(k)], positions, radii))
    IN  [k \in DOMAIN steps |-> <<indices_a[first(steps[k])], indices_b[second(steps[k])]>>]

\* the pairs of children a node met with itself goes through, in order
ChildPairs ==
    << <<1, 1>>, <<1, 2>>, <<1, 3>>, <<1, 4>>, <<2, 2>>, <<2, 3>>, <<2, 4>>,
       <<3, 3>>, <<3, 4>>, <<4, 4>> >>

RECURSIVE accumulate_collision_pairs(_, _, _, _, _, _, _)
\* accumulate_collision_pairs; the result is the forces after the call.
\* The pushes of a nested call are put after the forces before it.
accumulate_collision_pairs(node_a, node_b, same_node, positions, radii, max_collision_distance_sq, forces) ==
    IF distance_sq_to(node_a.bounds, node_b.bounds) > max_collision_distance_sq THEN forces
    ELSE IF is_leaf(node_a) /\ is_leaf(node_b)
    THEN IF same_node
         THEN forces \o pushes_within(node_a.indices, positions, radii)
         ELSE forces \o pushes_across(node_a.indices, node_b.indices, positions, radii)
    ELSE IF same_node
    THEN LET pair(k) ==
                IF node_a.children[ChildPairs[k][1]] = None
                   \/ node_a.children[ChildPairs[k][2]] = None
                THEN <<>>
                ELSE accumulate_collision_pairs(
                        node_a.children[ChildPairs[k][1]][1],
                        node_a.children[ChildPairs[k][2]][1],
                        ChildPairs[k][1] = ChildPairs[k][2],
                        positions, radii, max_collision_distance_sq, <<>>)
         IN  forces \o pair(1) \o pair(2) \o pair(3) \o pair(4) \o pair(5)
                    \o pair(6) \o pair(7) \o pair(8) \o pair(9) \o pair(10)
    ELSE LET split_a == IF is_leaf(node_a) THEN FALSE
                        ELSE IF is_leaf(node_b) THEN TRUE
                        ELSE node_a.bounds.half_extent >= node_b.bounds.half_extent
             into(k) ==
                IF split_a
                THEN IF node_a.children[k] = None THEN <<>>
                     ELSE accumulate_collision_pairs(node_a.children[k][1], node_b, FALSE,
                             positions, radii, max_collision_distance_sq, <<>>)
                ELSE IF node_b.children[k] = None THEN <<>>
                     ELSE accumulate_collision_pairs(node_a, node_b.children[k][1], FALSE,
                             positions, radii, max_collision_distance_sq, <<>>)
         IN  forces \o into(1) \o into(2) \o into(3) \o into(4)

\* step_physics: the collision pass on the tree of the step, none when
\* max_collision_distance is 0
collision_pass(quadtree, positions, radii) ==
    LET max_radius == max_over(radii, 0)
        max_collision_distance == ((max_radius * 2) * 42) \div 10
    IN  IF max_collision_distance > 0
        THEN accumulate_collision_pairs(quadtree, quadtree, TRUE, positions, radii,
                max_collision_distance * max_collision_distance, <<>>)
        ELSE <<>>

\* the scan over all i < j
brute_force_collisions(positions, radii) ==
    {pair \in (0..(Len(positions) - 1)) \X (0..(Len(positions) - 1)) :
        pair[1] < pair[2] /\ overlaps(pair[1], pair[2], positions, radii)}

---------------------------------------------------------------------------
(* physics/mod.rs: the end of step_physics.  Velocities and positions are
   pairs of integers, DriftTolerance units to 0.001; a division rounds down
   to a unit.  The forces are not computed: the velocity a node has after
   force, damping, clamping and sleep is an input.  time_step_scale is 1. *)

\* 0.001, the magnitude above which the mean is subtracted
DriftTolerance == 8

\* the mean of the vectors of a non-empty sequence
mean_of(vectors) ==
    <<SumSeq([k \in DOMAIN vectors |-> vectors[k][1]]) \div Len(vectors),
      SumSeq([k \in DOMAIN vectors |-> vectors[k][2]]) \div Len(vectors)>>

\* the vectors less `mean` when its magnitude exceeds DriftTolerance
less_drift(vectors, mean) ==
    IF length_sq(mean, <<0, 0>>) > DriftTolerance * DriftTolerance
    THEN [k \in DOMAIN vectors |-> <<vectors[k][1] - mean[1], vectors[k][2] - mean[2]>>]
    ELSE vectors

\* a step that reports motion whenever it has two nodes to move
any_motion_always(nodes, integrated) == Len(nodes) >= 2

\* what step_physics returns: false for fewer than two nodes, else whether
\* the integrated velocity of a node exceeds 0.001
any_motion(nodes, integrated) ==
    /\ Len(nodes) >= 2
    /\ \E k \in DOMAIN nodes :
          length_sq_of(integrated[k]) > DriftTolerance * DriftTolerance

\* step_physics on the world state of the nodes: nothing for fewer than two
\* nodes; else every node takes its integrated velocity and moves by it,
\* then the mean velocity and the centroid are subtracted
step_physics(nodes, integrated) ==
    IF Len(nodes) < 2 THEN nodes
    ELSE LET moved == [k \in DOMAIN nodes |->
                         <<nodes[k].world_pos[1] + integrated[k][1],
                           nodes[k].world_pos[2] + integrated[k][2]>>]
             velocities == less_drift(integrated, mean_of(integrated))
             positions == less_drift(moved, mean_of(moved))
         IN  [k \in DOMAIN nodes |->
                [nodes[k] EXCEPT !.world_pos = positions[k], !.velocity = velocities[k]]]

---------------------------------------------------------------------------
(* Inputs offered to the handlers *)

SearchChoices == {<<>>, <<"a", "b", " ">>}

MetricChoices == {"NarSize", "Dependencies"}

\* the slider range 0.0..=threshold_max in steps of 5, and the initial 64
ThresholdChoices == {0, 64}

\* the slider range 2..=max(node_count, 2)
MaxNodesChoices(g) == {2, 3} \cap (2..Max2(node_count(g), 2))

is_byte_metric(m) == m \in {"NarSize", "ClosureSize"}

---------------------------------------------------------------------------
(* The state machine *)

\* no call is being followed
NoCalls ==
    /\ call = [phase |-> "idle"]

\* ViewModel::new(graph), with the iteration order of the node map
ViewModelNew(g, order) ==
    /\ graph = g
    /\ iter_order = order
    /\ metric = "NarSize"
    /\ min_size_mb = 64
    /\ max_nodes = 450
    /\ search = <<>>
    /\ selected = None
    /\ graph_dirty = TRUE
    /\ render_graph_revision = 0
    /\ graph_cache = None
    /\ search_match_cache = None
    /\ details_panel_cache = None
    /\ pc = "show"
    /\ last_op = "none"
    /\ pseudo_matches = None
    /\ pseudo_reused = FALSE
    /\ details_data = None
    /\ details_reused = FALSE

\* the application is Ready and no load is followed
AppReady ==
    /\ state = [kind |-> "Ready", rx |-> 0, message |-> ""]
    /\ reload_rx = None
    /\ loads = <<>>
    /\ applied = <<>>

\* AppState::Ready(ViewModel::new(graph))
ReadyWith(g, order) == ViewModelNew(g, order) /\ AppReady

\* ViewModel::new, for every graph the loader can hand over
Init ==
    /\ \E session \in Sessions : ReadyWith(session[1], session[2])
    /\ NoCalls

\* the fields rebuild_render_graph writes
Rebuild ==
    /\ render_graph_revision' = render_graph_revision + 1
    /\ graph_cache' = rebuild_render_graph(graph, iter_order, metric, min_size_mb,
                                           max_nodes, selected, graph_cache)
    /\ graph_dirty' = FALSE
    /\ last_op' = "rebuild"

\* ViewModel::show up to the panels: rebuild when dirty
Show ==
    /\ pc = "show"
    /\ pc' = "controls"
    /\ IF graph_dirty
       THEN Rebuild /\ search_match_cache' = None
       ELSE /\ last_op' = "none"
            /\ UNCHANGED <<render_graph_revision, graph_cache, graph_dirty, search_match_cache>>
    /\ UNCHANGED <<graph, iter_order, metric, min_size_mb, max_nodes, search, selected,
                   details_panel_cache, pseudo_matches, pseudo_reused,
                   details_data, details_reused>>
    /\ UNCHANGED call_vars

\* include_node_in_current_graph(id) followed by set_selected(Some(id))
IncludeAndSelect(id) ==
    /\ graph_cache' = include_node_in_current_graph(graph, iter_order, metric, graph_cache, id)
    /\ selected' = Some(id)
    /\ last_op' = IF graph_cache' # graph_cache THEN "include"
                  ELSE IF IsSome(graph_cache) THEN "reinclude" ELSE "none"

\* draw_controls without any interaction
ControlsIdle ==
    /\ last_op' = "none"
    /\ UNCHANGED <<metric, min_size_mb, max_nodes, search, selected, graph_dirty, graph_cache>>

\* the search text is edited
ControlsSearch ==
    /\ \E text \in SearchChoices \ {search} : search' = text
    /\ last_op' = "none"
    /\ UNCHANGED <<metric, min_size_mb, max_nodes, selected, graph_dirty, graph_cache>>

\* another metric is chosen and the render graph is left in place
ControlsMetric_keeping_graph ==
    /\ render_graph_revision < MaxRevision
    /\ \E m \in MetricChoices \ {metric}, threshold_max \in ThresholdChoices :
          /\ metric' = m
          /\ min_size_mb' = IF ~is_byte_metric(m) THEN Min2(min_size_mb, threshold_max)
                            ELSE min_size_mb
    /\ graph_dirty' = TRUE
    /\ last_op' = "none"
    /\ UNCHANGED <<max_nodes, search, selected, graph_cache>>

\* another metric is chosen: the render graph is dropped
ControlsMetric ==
    /\ render_graph_revision < MaxRevision
    /\ \E m \in MetricChoices \ {metric}, threshold_max \in ThresholdChoices :
          /\ metric' = m
          /\ min_size_mb' = IF ~is_byte_metric(m) THEN Min2(min_size_mb, threshold_max)
                            ELSE min_size_mb
    /\ graph_cache' = None
    /\ graph_dirty' = TRUE
    /\ last_op' = "none"
    /\ UNCHANGED <<max_nodes, search, selected>>

\* the threshold slider is moved
ControlsThreshold ==
    /\ render_graph_revision < MaxRevision
    /\ \E mb \in ThresholdChoices \ {min_size_mb} : min_size_mb' = mb
    /\ graph_dirty' = TRUE
    /\ last_op' = "none"
    /\ UNCHANGED <<metric, max_nodes, search, selected, graph_cache>>

\* the node cap slider is moved
ControlsMaxNodes ==
    /\ render_graph_revision < MaxRevision
    /\ \E n \in MaxNodesChoices(graph) \ {max_nodes} : max_nodes' = n
    /\ graph_dirty' = TRUE
    /\ last_op' = "none"
    /\ UNCHANGED <<metric, min_size_mb, search, selected, graph_cache>>

\* a physics slider is moved or "Rebuild graph" is pressed
ControlsTouch ==
    /\ render_graph_revision < MaxRevision
    /\ graph_dirty' = TRUE
    /\ last_op' = "none"
    /\ UNCHANGED <<metric, min_size_mb, max_nodes, search, selected, graph_cache>>

\* a row of a ranking list is clicked
ControlsRankingClick ==
    /\ \E id \in DOMAIN graph.nodes : IncludeAndSelect(id)
    /\ UNCHANGED <<metric, min_size_mb, max_nodes, search, graph_dirty>>

\* draw_controls
DrawControls ==
    /\ pc = "controls"
    /\ pc' = "details"
    /\ \/ ControlsIdle
       \/ ControlsSearch
       \/ ControlsMetric
       \/ ControlsThreshold
       \/ ControlsMaxNodes
       \/ ControlsTouch
       \/ ControlsRankingClick
    /\ UNCHANGED <<graph, iter_order, render_graph_revision, search_match_cache,
                   details_panel_cache, pseudo_matches, pseudo_reused,
                   details_data, details_reused>>
    /\ UNCHANGED call_vars

\* draw_details up to the call of details_panel_data
DrawDetails ==
    /\ pc = "details"
    /\ pc' = "related"
    /\ IF IsSome(selected) /\ selected[1] \in DOMAIN graph.nodes
       THEN \E r \in {details_panel_data(graph, metric, render_graph_revision, graph_cache,
                                         details_panel_cache, selected[1],
                                         DETAILS_RELATED_LIMIT)} :
               /\ details_data' = Some(r.result)
               /\ details_reused' = r.reused
               /\ details_panel_cache' = r.cache
       ELSE /\ details_data' = None
            /\ details_reused' = FALSE
            /\ UNCHANGED details_panel_cache
    /\ last_op' = "none"
    /\ UNCHANGED <<graph, iter_order, metric, min_size_mb, max_nodes, search, selected,
                   graph_dirty, render_graph_revision, graph_cache, search_match_cache,
                   pseudo_matches, pseudo_reused>>
    /\ UNCHANGED call_vars

\* the ids draw_details offers as links: the related rows and the root path
details_links ==
    IF ~IsSome(details_data) THEN {}
    ELSE {details_data[1].related_nodes[k].id : k \in DOMAIN details_data[1].related_nodes}
         \cup (IF selected # Some(graph.root_id) /\ IsSome(details_data[1].shortest_path_from_root)
               THEN Range(details_data[1].shortest_path_from_root[1]) ELSE {})

\* the rest of draw_details: a link may be clicked; the locals end with it
DetailsClick ==
    /\ pc = "related"
    /\ pc' = "graph"
    /\ \/ /\ last_op' = "none"
          /\ UNCHANGED <<selected, graph_cache>>
       \/ \E id \in details_links : IncludeAndSelect(id)
    /\ details_data' = None
    /\ details_reused' = FALSE
    /\ UNCHANGED <<graph, iter_order, metric, min_size_mb, max_nodes, search, graph_dirty,
                   render_graph_revision, search_match_cache, details_panel_cache,
                   pseudo_matches, pseudo_reused>>
    /\ UNCHANGED call_vars

\* draw_graph up to the physics step: rebuild when dirty, then the
\* search-match lookup
DrawGraph ==
    /\ pc = "graph"
    /\ pc' = "interact"
    /\ IF graph_dirty
       THEN Rebuild
       ELSE /\ last_op' = "none"
            /\ UNCHANGED <<render_graph_revision, graph_cache, graph_dirty>>
    /\ LET r == cached_pseudo_matches(selected, search,
                                      IF graph_dirty THEN None ELSE search_match_cache,
                                      render_graph_revision', graph_cache')
       IN  /\ pseudo_matches' = r.result
           /\ pseudo_reused' = r.reused
           /\ search_match_cache' = r.cache
    /\ UNCHANGED <<graph, iter_order, metric, min_size_mb, max_nodes, search, selected,
                   details_panel_cache, details_data, details_reused>>
    /\ UNCHANGED call_vars

\* the graph area can be clicked: on a node, or on the background
GraphClicks ==
    {<<"no_click">>, <<"background">>} \cup
    (IF IsSome(graph_cache)
     THEN {<<"node", graph_cache[1].nodes[k].id>> : k \in DOMAIN graph_cache[1].nodes}
     ELSE {})

\* the rest of draw_graph: the physics step when live, then the selection
\* and the nodes drawn in draw order; the locals end with it
Interact ==
    /\ pc = "interact"
    /\ pc' = "show"
    /\ IF ~IsSome(graph_cache)
       THEN /\ last_op' = "none"
            /\ UNCHANGED <<graph_cache, selected>>
       ELSE /\ \/ graph_cache' = Some(ensure_draw_order(graph_cache[1]))
               \/ /\ \A k \in DOMAIN graph_cache[1].nodes :
                        graph_cache[1].nodes[k].world_pos < MaxTicks
                  /\ graph_cache' =
                        Some(ensure_draw_order(step_physics_effect(graph_cache[1])))
            /\ last_op' = IF draw_order_is_current(graph_cache[1])
                          THEN "draw_cached" ELSE "draw_sorted"
            /\ \E click \in GraphClicks :
                  selected' = CASE click[1] = "no_click"   -> selected
                                [] click[1] = "background" -> None
                                [] OTHER                   -> Some(click[2])
    /\ pseudo_matches' = None
    /\ pseudo_reused' = FALSE
    /\ UNCHANGED <<graph, iter_order, metric, min_size_mb, max_nodes, search, graph_dirty,
                   render_graph_revision, search_match_cache, details_panel_cache,
                   details_data, details_reused>>
    /\ UNCHANGED call_vars

Next ==
    \/ Show
    \/ DrawControls
    \/ DrawDetails
    \/ DetailsClick
    \/ DrawGraph
    \/ Interact

Spec == Init /\ [][Next]_vars

---------------------------------------------------------------------------
(* nix/graph.rs: shortest_path_from_root followed step by step.  One action
   per early return, per iteration of the search loop and per iteration of
   the walk back along the parent map; enqueued and steps are history
   variables. *)

\* every subset of S as an ascending sequence
SortedSubsets(S) == {SetToSortedSeq(T) : T \in SUBSET S}

\* every closure of MaxPathNodes store paths: any root, any references
\* between different paths, cycles included
PathGraphs ==
    LET ids == 1..MaxPathNodes
    IN  { collect_system_graph([ root    |-> r,
                                 nar     |-> [id \in ids |-> 1],
                                 closure |-> [id \in ids |-> 1],
                                 refs    |-> refs ]) :
            r \in ids,
            refs \in { f \in [ids -> SortedSubsets(ids)] :
                         \A id \in ids : ~Contains(f[id], id) } }

\* the targets asked for: every node and one id that is no node
PathTargets == 0..MaxPathNodes

PathInit ==
    /\ \E g \in PathGraphs : ReadyWith(g, SetToSortedSeq(DOMAIN g.nodes))
    /\ \E target \in PathTargets :
          call = [ phase    |-> "entry",
                        target   |-> target,
                        queue    |-> <<>>,
                        visited  |-> {},
                        parent   |-> [id \in {} |-> 0],
                        cursor   |-> 0,
                        path     |-> <<>>,
                        result   |-> None,
                        enqueued |-> <<>>,
                        steps    |-> 0 ]

\* the call has returned `result`
PathReturn(c, result) ==
    [c EXCEPT !.phase = "done", !.result = result, !.steps = @ + 1]

\* get_key_value(target)?, the root shortcut, and the start of the search
PathEntry ==
    /\ call.phase = "entry"
    /\ call' =
          IF call.target \notin DOMAIN graph.nodes THEN PathReturn(call, None)
          ELSE IF call.target = graph.root_id
               THEN PathReturn(call, Some(<<graph.root_id>>))
          ELSE [call EXCEPT !.phase = "search",
                                 !.queue = <<graph.root_id>>,
                                 !.visited = {graph.root_id},
                                 !.enqueued = <<graph.root_id>>,
                                 !.steps = @ + 1]
    /\ UNCHANGED <<view_vars, app_vars>>

\* the search state after visiting the references of `current`
PathVisited(c, current, popped) ==
    LET st == BfsVisit(graph, current, graph.nodes[current].references,
                       [ queue   |-> popped,
                         visited |-> c.visited,
                         parent  |-> c.parent ])
    IN  [c EXCEPT !.queue = st.queue,
                     !.visited = st.visited,
                     !.parent = st.parent,
                     !.enqueued = @ \o SubSeq(st.queue, Len(popped) + 1, Len(st.queue)),
                     !.steps = @ + 1]

\* one iteration of while let Some(current) = queue.pop_front()
PathSearchStep ==
    /\ call.phase = "search"
    /\ call' =
          IF call.queue = <<>>
          THEN [call EXCEPT !.phase = "searched", !.steps = @ + 1]
          ELSE LET current == call.queue[1]
                   popped == Tail(call.queue)
               IN  IF current = call.target
                   THEN [call EXCEPT !.phase = "searched", !.queue = popped,
                                          !.steps = @ + 1]
                   ELSE IF current \notin DOMAIN graph.nodes
                        THEN [call EXCEPT !.queue = popped, !.steps = @ + 1]
                   ELSE PathVisited(call, current, popped)
    /\ UNCHANGED <<view_vars, app_vars>>

\* if !visited.contains(target) { return None; } and the start of the walk
PathAfterSearch ==
    /\ call.phase = "searched"
    /\ call' =
          IF call.target \notin call.visited THEN PathReturn(call, None)
          ELSE [call EXCEPT !.phase = "walk",
                                 !.cursor = call.target,
                                 !.path = <<call.target>>,
                                 !.steps = @ + 1]
    /\ UNCHANGED <<view_vars, app_vars>>

\* one iteration of while cursor != root, and path.reverse() at its end
PathWalkStep ==
    /\ call.phase = "walk"
    /\ call' =
          IF call.cursor = graph.root_id
          THEN PathReturn(call, path_from_parents(Some(call.path)))
          ELSE IF call.cursor \notin DOMAIN call.parent
               THEN PathReturn(call, path_from_parents(None))
          ELSE [call EXCEPT !.cursor = call.parent[call.cursor],
                                 !.path = Append(@, call.parent[call.cursor]),
                                 !.steps = @ + 1]
    /\ UNCHANGED <<view_vars, app_vars>>

PathNext == PathEntry \/ PathSearchStep \/ PathAfterSearch \/ PathWalkStep

SpecPath == PathInit /\ [][PathNext]_vars

---------------------------------------------------------------------------
(* highlight/mod.rs: the two passes of build_highlight_state_for_selected_id
   over one pair of sets, on selected nodes with many direct neighbours *)

\* A closure around store path 1: `both` paths that refer to it and are
\* referred to by it, then `fwd` paths it refers to, then `rev` paths that
\* refer to it.
StarGraph(both, fwd, rev) ==
    LET n == 1 + both + fwd + rev
        is_ref(id) == id >= 2 /\ id <= 1 + both + fwd
        is_referrer(id) == (id >= 2 /\ id <= 1 + both) \/ id > 1 + both + fwd
    IN  [ root_id |-> 1,
          nodes   |-> [id \in 1..n |->
                        [ nar_size     |-> 1,
                          closure_size |-> 1,
                          references   |-> IF id = 1 THEN [k \in 1..(both + fwd) |-> k + 1]
                                           ELSE IF is_referrer(id) THEN <<1>> ELSE <<>>,
                          referrers    |-> IF id = 1
                                           THEN [k \in 1..(both + rev) |->
                                                   IF k <= both THEN k + 1 ELSE k + 1 + fwd]
                                           ELSE IF is_ref(id) THEN <<1>> ELSE <<>> ]] ]

\* neighbour counts around the take of one pass and the node limit
NeighbourCounts ==
    {0, 1, RELATED_NEIGHBOR_TAKE, RELATED_NODE_LIMIT - 1, MaxNeighbours}

\* index_by_id of a render graph that holds every path, every path but the
\* selected one, every second path, or only the selected one
RelatedViews(g) ==
    LET n == node_count(g)
    IN  { [id \in 1..n |-> id - 1],
          [id \in 2..n |-> id - 2],
          [id \in {k \in 1..n : k % 2 = 1} |-> (id - 1) \div 2],
          [id \in {1} |-> 0] }

RelatedInit ==
    /\ \E both \in {0, 1}, fwd \in NeighbourCounts, rev \in NeighbourCounts :
          ReadyWith(StarGraph(both, fwd, rev), <<>>)
    /\ \E index_by_id \in RelatedViews(graph) :
          call = [ phase         |-> "entry",
                   selected_id   |-> 1,
                   index_by_id   |-> index_by_id,
                   related_nodes |-> {},
                   related_edges |-> {} ]

\* the `forward` pass of collect_related_paths_by_id over the sets of the call
RelatedPass(c, forward, phase) ==
    LET r == collect_related_paths_by_id(graph, c.selected_id, forward, c.index_by_id,
                                         c.related_nodes, c.related_edges)
    IN  [c EXCEPT !.phase = phase,
                  !.related_nodes = r.related_nodes,
                  !.related_edges = r.related_edges]

\* collect_related_paths_by_id(graph, selected_id, true, ...)
RelatedForward ==
    /\ call.phase = "entry"
    /\ call' = RelatedPass(call, TRUE, "forward_done")
    /\ UNCHANGED <<view_vars, app_vars>>

\* collect_related_paths_by_id(graph, selected_id, false, ...)
RelatedReverse ==
    /\ call.phase = "forward_done"
    /\ call' = RelatedPass(call, FALSE, "done")
    /\ UNCHANGED <<view_vars, app_vars>>

RelatedNext == RelatedForward \/ RelatedReverse

SpecRelated == RelatedInit /\ [][RelatedNext]_vars

---------------------------------------------------------------------------
(* graph/build.rs and physics/mod.rs: two runs of the program on the same
   inputs.  The node map is a std HashMap, whose iteration order is drawn
   anew for every process; the runs differ in nothing else. *)

\* every order in which the keys of the node map can be iterated
IterationOrders(g) ==
    {order \in [1..node_count(g) -> DOMAIN g.nodes] : Range(order) = DOMAIN g.nodes}

\* what the claim compares: ordered nodes with positions, and the edge list
Observed(cache_opt) ==
    IF IsSome(cache_opt)
    THEN Some([ nodes |-> [k \in DOMAIN cache_opt[1].nodes |->
                             <<cache_opt[1].nodes[k].id, k - 1,
                               cache_opt[1].nodes[k].world_pos>>],
                edges |-> cache_opt[1].edges ])
    ELSE None

TwoRunsInit ==
    /\ \E g \in {collect_system_graph(RawA), collect_system_graph(RawB)} :
          ReadyWith(g, SetToSortedSeq(DOMAIN g.nodes))
    /\ \E order_a \in IterationOrders(graph), order_b \in IterationOrders(graph),
          m \in MetricChoices, min_mb \in ThresholdChoices,
          maxn \in MaxNodesChoices(graph),
          sel \in {None} \cup {Some(id) : id \in DOMAIN graph.nodes} :
          call = [ phase       |-> "entry",
                   order_a     |-> order_a,
                   order_b     |-> order_b,
                   metric      |-> m,
                   min_size_mb |-> min_mb,
                   max_nodes   |-> maxn,
                   selected    |-> sel,
                   run_a       |-> None,
                   run_b       |-> None,
                   rebuilds    |-> 0,
                   ticks       |-> 0 ]

\* both runs rebuild the render graph from the same fields
TwoRunsRebuild ==
    /\ call.phase \in {"entry", "ticked"}
    /\ call.rebuilds < MaxRevision
    /\ call' = [call EXCEPT
          !.phase = "rebuilt",
          !.rebuilds = @ + 1,
          !.run_a = rebuild_render_graph(graph, call.order_a, call.metric, call.min_size_mb,
                                         call.max_nodes, call.selected, call.run_a),
          !.run_b = rebuild_render_graph(graph, call.order_b, call.metric, call.min_size_mb,
                                         call.max_nodes, call.selected, call.run_b)]
    /\ UNCHANGED <<view_vars, app_vars>>

\* both runs take one physics step
TwoRunsTick ==
    /\ call.phase = "rebuilt"
    /\ call.ticks < MaxTicks
    /\ IsSome(call.run_a) /\ IsSome(call.run_b)
    /\ call' = [call EXCEPT
          !.phase = "ticked",
          !.ticks = @ + 1,
          !.run_a = Some(step_physics_effect(call.run_a[1])),
          !.run_b = Some(step_physics_effect(call.run_b[1]))]
    /\ UNCHANGED <<view_vars, app_vars>>

TwoRunsNext == TwoRunsRebuild \/ TwoRunsTick

SpecTwoRuns == TwoRunsInit /\ [][TwoRunsNext]_vars

---------------------------------------------------------------------------
(* physics/mod.rs: QuadNode::build over the positions of a step, and the
   repulsion queries on the tree *)

\* `count` points at (1.0, 0)
QuadCluster(count) == [k \in 1..count |-> <<WorldUnit, 0>>]

\* points that approach (1.0, 0) from the right, halving the distance
QuadChain(len) == [k \in 1..len |-> <<WorldUnit + (WorldUnit \div (2 ^ k)), 0>>]

\* two points that fix the bounding box on the x axis
QuadAnchors == << <<0, 0>>, <<2 * WorldUnit, 0>> >>

\* points above the x axis
QuadExtras ==
    { <<>>,
      << <<WorldUnit \div 2, WorldUnit>> >>,
      << <<0, WorldUnit>> >>,
      << <<WorldUnit \div 2, WorldUnit>>, <<(3 * WorldUnit) \div 2, WorldUnit>> >>,
      << <<WorldUnit \div 2, WorldUnit>>, <<(3 * WorldUnit) \div 2, WorldUnit>>,
         <<0, WorldUnit>> >> }

\* the halvings of from_points and child are exact for these points
ExactHalving(points) ==
    \/ points = <<>>
    \/ LET xs == [i \in DOMAIN points |-> points[i][1]]
           ys == [i \in DOMAIN points |-> points[i][2]]
       IN  /\ (MinOf(xs) + MaxOf(xs)) % 2 = 0
           /\ (MinOf(ys) + MaxOf(ys)) % 2 = 0
           /\ Max2(Max2(MaxOf(xs) - MinOf(xs), MaxOf(ys) - MinOf(ys)), WorldUnit) % 2 = 0
           /\ from_points(points)[1].half_extent % (2 ^ QUADTREE_MAX_DEPTH) = 0

\* the position lists a tree is built from
QuadInputs ==
    { points \in { anchors \o QuadCluster(count) \o QuadChain(len) \o extras :
                     anchors \in {<<>>, QuadAnchors},
                     count \in {0, 1, QUADTREE_LEAF_CAPACITY, QUADTREE_LEAF_CAPACITY + 1},
                     len \in 0..MaxChain,
                     extras \in QuadExtras } :
        ExactHalving(points) }

\* the opening angles of a query: none, the one of step_physics, a wide one
ThetaChoices == {0, BARNES_HUT_THETA, 2000}

QuadInit ==
    /\ ReadyWith(collect_system_graph(RawC), <<1>>)
    /\ \E positions \in QuadInputs, theta \in ThetaChoices :
          call = [ phase     |-> "entry",
                   positions |-> positions,
                   theta     |-> theta,
                   quadtree  |-> None,
                   index     |-> 0,
                   force     |-> <<>> ]

\* QuadNode::build(positions)
QuadBuild ==
    /\ call.phase = "entry"
    /\ call' = [call EXCEPT !.phase = "built", !.quadtree = build(call.positions)]
    /\ UNCHANGED <<view_vars, app_vars>>

\* accumulate_repulsion_for_node(&quadtree, index, ...) into a zero force
QuadQuery ==
    /\ call.phase = "built"
    /\ IsSome(call.quadtree)
    /\ \E index \in 0..(Len(call.positions) - 1) :
          call' = [call EXCEPT
             !.phase = "queried",
             !.index = index,
             !.force = accumulate_repulsion_for_node(call.quadtree[1], index,
                                                     call.positions, call.theta, <<>>)]
    /\ UNCHANGED <<view_vars, app_vars>>

QuadNext == QuadBuild \/ QuadQuery

SpecQuad == QuadInit /\ [][QuadNext]_vars

---------------------------------------------------------------------------
(* physics/mod.rs: the collision pass of a step *)

\* the radii of the points of even and of odd index
RadiusChoices ==
    { <<0, 0>>, <<5, 5>>, <<5, 0>>, <<10, 250>>, <<250, 250>>, <<2000, 5>> }

CollideInit ==
    /\ ReadyWith(collect_system_graph(RawC), <<1>>)
    /\ \E positions \in QuadInputs, choice \in RadiusChoices :
          call = [ phase     |-> "entry",
                   positions |-> positions,
                   radii     |-> [k \in DOMAIN positions |-> choice[(k % 2) + 1]],
                   quadtree  |-> None,
                   forces    |-> <<>> ]

\* QuadNode::build(positions)
CollideBuild ==
    /\ call.phase = "entry"
    /\ call' = [call EXCEPT !.phase = "built", !.quadtree = build(call.positions)]
    /\ UNCHANGED <<view_vars, app_vars>>

\* accumulate_collision_pairs(&quadtree, &quadtree, true, ...)
CollidePass ==
    /\ call.phase = "built"
    /\ IsSome(call.quadtree)
    /\ call' = [call EXCEPT
          !.phase = "collided",
          !.forces = collision_pass(call.quadtree[1], call.positions, call.radii)]
    /\ UNCHANGED <<view_vars, app_vars>>

CollideNext == CollideBuild \/ CollidePass

SpecCollide == CollideInit /\ [][CollideNext]_vars

---------------------------------------------------------------------------
(* physics/quadtree.rs: QuadNode::build on position lists with coordinates
   that are not finite *)

BuildCoordinates == {0, WorldUnit, NAN, INFINITY, NEG_INFINITY}

\* every list of at most MaxBuildPoints points over the coordinates
BuildInputs ==
    UNION {[1..n -> BuildCoordinates \X BuildCoordinates] : n \in 0..MaxBuildPoints}

BuildInit ==
    /\ ReadyWith(collect_system_graph(RawC), <<1>>)
    /\ \E positions \in BuildInputs :
          call = [phase |-> "entry", positions |-> positions, quadtree |-> None]

\* QuadNode::build(positions)
BuildCall ==
    /\ call.phase = "entry"
    /\ call' = [call EXCEPT !.phase = "built", !.quadtree = build(call.positions)]
    /\ UNCHANGED <<view_vars, app_vars>>

BuildNext == BuildCall

SpecBuild == BuildInit /\ [][BuildNext]_vars

---------------------------------------------------------------------------
(* graph/view.rs and graph/interaction.rs: the frames of the graph area
   with a render graph.  zoom is a number of thousandths, a scroll delta a
   number of points. *)

\* handle_graph_zoom: the zoom after the frame
handle_graph_zoom(zoom, hovered, scroll) ==
    IF ~hovered THEN zoom
    ELSE IF scroll = 0 THEN zoom
    ELSE LET zoom_factor == Min2(Max2(10000 + (scroll * 18), 8500), 11500)
         IN  Min2(Max2((zoom * zoom_factor) \div 10000, 50), 6000)

\* if physics_moving || interaction_active { request_repaint() }
repaint_requested(physics_moving, interaction_active) ==
    physics_moving \/ interaction_active

\* velocities after the integration of a step: asleep, below the
\* tolerance, and moving
IntegratedVelocities == {<<0, 0>>, <<3, -4>>, <<4000, 12000>>}

\* input.raw_scroll_delta.y of a frame
ScrollChoices == {-50, 0, 50}

FrameInit ==
    /\ ReadyWith(collect_system_graph(RawC), <<1>>)
    /\ \E n \in 1..2 :
          call = [ phase        |-> "new",
                   nodes        |-> [k \in 1..n |->
                                       [world_pos |-> <<0, 0>>, velocity |-> <<0, 0>>]],
                   zoom         |-> 1000,
                   live_physics |-> TRUE,
                   integrated   |-> <<>>,
                   hovered      |-> FALSE,
                   scroll       |-> 0,
                   dragged      |-> FALSE,
                   repaint      |-> FALSE,
                   frames       |-> 0 ]

\* the "Live physics simulation" checkbox is clicked between two frames
FrameToggle ==
    /\ call.phase = "drawn"
    /\ call.frames < MaxFrames
    /\ call' = [call EXCEPT !.phase = "new", !.live_physics = ~@]
    /\ UNCHANGED <<view_vars, app_vars>>

\* draw_graph from handle_graph_zoom to request_repaint
FrameDraw ==
    /\ call.frames < MaxFrames
    /\ \E hovered \in BOOLEAN, scroll \in ScrollChoices, dragged \in BOOLEAN,
          integrated \in [DOMAIN call.nodes -> IntegratedVelocities] :
          call' = [call EXCEPT
             !.phase = "drawn",
             !.zoom = handle_graph_zoom(call.zoom, hovered, scroll),
             !.nodes = IF call.live_physics THEN step_physics(call.nodes, integrated) ELSE @,
             !.integrated = integrated,
             !.hovered = hovered,
             !.scroll = scroll,
             !.dragged = dragged,
             !.repaint = repaint_requested(
                            call.live_physics /\ any_motion(call.nodes, integrated), dragged),
             !.frames = @ + 1]
    /\ UNCHANGED <<view_vars, app_vars>>

FrameNext == FrameToggle \/ FrameDraw

SpecFrame == FrameInit /\ [][FrameNext]_vars

---------------------------------------------------------------------------
(* physics/mod.rs and graph/build.rs: steps of the integrator between
   rebuilds that keep the world state of the nodes they retain *)

\* velocities of new nodes other than the root: direction * initial_speed
InitialVelocities == {<<10000, 0>>, <<-6000, 8000>>}

\* the nodes of a first rebuild: all at the origin, the root at rest
StepInit ==
    /\ ReadyWith(collect_system_graph(RawC), <<1>>)
    /\ \E n \in 1..MaxStepNodes :
       \E initial \in [2..n -> InitialVelocities] :
          call = [ phase |-> "rebuilt",
                   nodes |-> [k \in 1..n |->
                                [ world_pos |-> <<0, 0>>,
                                  velocity  |-> IF k = 1 THEN <<0, 0>> ELSE initial[k] ]],
                   steps |-> 0 ]

\* step_physics(cache, config)
StepTick ==
    /\ call.steps < MaxSteps
    /\ \E integrated \in [DOMAIN call.nodes -> IntegratedVelocities] :
          call' = [call EXCEPT !.phase = "stepped",
                               !.nodes = step_physics(call.nodes, integrated),
                               !.steps = @ + 1]
    /\ UNCHANGED <<view_vars, app_vars>>

\* rebuild_render_graph under a stricter filter: the first `kept` nodes
\* stay, each with its world_pos and velocity
StepRebuild ==
    /\ call.phase = "stepped"
    /\ \E kept \in 1..(Len(call.nodes) - 1) :
          call' = [call EXCEPT !.phase = "rebuilt", !.nodes = SubSeq(call.nodes, 1, kept)]
    /\ UNCHANGED <<view_vars, app_vars>>

StepNext == StepTick \/ StepRebuild

SpecStep == StepInit /\ [][StepNext]_vars

---------------------------------------------------------------------------
(* app/mod.rs: NixAnalyzeApp.  A load is a worker thread with the channel
   it sends its one result on; its index in `loads` stands for the Receiver.
   ViewModel::show is left out of the Ready frame except for the reload
   request it reports. *)

\* the place of a graph while there is no view model
NoGraph == [root_id |-> 0, nodes |-> <<>>]

NoResult == [ok |-> FALSE, session |-> <<NoGraph, <<>>>>, message |-> ""]

\* what collect_system_graph(&system_path).map_err(to_string) can give
LoadResults ==
    {[ok |-> TRUE, session |-> session, message |-> ""] : session \in Sessions}
    \cup {[ok |-> FALSE, session |-> <<NoGraph, <<>>>>, message |-> message] :
             message \in {"nix path-info failed", "closure is empty"}}

\* spawn_load: one more worker, running; the Receiver is its index
spawn_load(ls) == Append(ls, [status |-> "running", result |-> NoResult])

\* a try_recv that reads the channel of the first load
try_recv_first(ls, rx) ==
    IF ls[1].status \in {"sent", "received"}
    THEN [kind |-> "Ok", from |-> 1, result |-> ls[1].result]
    ELSE [kind |-> "Empty", from |-> 1, result |-> NoResult]

\* rx.try_recv(): the result once it is sent, Empty while the worker runs,
\* Disconnected when the sender is gone with nothing left in the channel
try_recv(ls, rx) ==
    CASE ls[rx].status = "sent"    -> [kind |-> "Ok", from |-> rx, result |-> ls[rx].result]
      [] ls[rx].status = "running" -> [kind |-> "Empty", from |-> rx, result |-> NoResult]
      [] OTHER                     -> [kind |-> "Disconnected", from |-> rx, result |-> NoResult]

\* the channel after its result was taken
received(ls, from) == [ls EXCEPT ![from].status = "received"]

Loading(rx) == [kind |-> "Loading", rx |-> rx, message |-> ""]

Ready == [kind |-> "Ready", rx |-> 0, message |-> ""]

Error(message) == [kind |-> "Error", rx |-> 0, message |-> message]

\* a match that reports every failure with the same text
transition_for_any_error(result) ==
    IF result.ok THEN Ready ELSE Error("load failed")

\* match result { Ok(graph) => Ready(ViewModel::new(graph)), Err(error) => Error(error) }
transition_for(result) ==
    IF result.ok THEN Ready ELSE Error(result.message)

\* ViewModel::new(graph) put in place of the view model
InstallViewModel(g, order) ==
    /\ graph' = g
    /\ iter_order' = order
    /\ metric' = "NarSize"
    /\ min_size_mb' = 64
    /\ max_nodes' = 450
    /\ search' = <<>>
    /\ selected' = None
    /\ graph_dirty' = TRUE
    /\ render_graph_revision' = 0
    /\ graph_cache' = None
    /\ search_match_cache' = None
    /\ details_panel_cache' = None
    /\ pc' = "show"
    /\ last_op' = "none"
    /\ pseudo_matches' = None
    /\ pseudo_reused' = FALSE
    /\ details_data' = None
    /\ details_reused' = FALSE

\* the result `answer` of a try_recv becomes the state:
\* transition = Some(..); self.reload_rx = None; self.state = next_state
ApplyResult(ls, answer) ==
    /\ loads' = received(ls, answer.from)
    /\ state' = transition_for(answer.result)
    /\ reload_rx' = None
    /\ applied' = Append(applied, [load |-> answer.from, started |-> Len(ls)])
    /\ IF answer.result.ok
       THEN InstallViewModel(answer.result.session[1], answer.result.session[2])
       ELSE UNCHANGED view_vars

\* NixAnalyzeApp::new: start_load
LoadInit ==
    /\ ViewModelNew(NoGraph, <<>>)
    /\ NoCalls
    /\ loads = spawn_load(<<>>)
    /\ state = Loading(1)
    /\ reload_rx = None
    /\ applied = <<>>

\* the worker of load `id` sends its result
WorkerSend(id) ==
    /\ loads[id].status = "running"
    /\ \E result \in LoadResults :
          loads' = [loads EXCEPT ![id] = [status |-> "sent", result |-> result]]
    /\ UNCHANGED <<view_vars, call, state, reload_rx, applied>>

\* the worker of load `id` ends without sending
WorkerPanic(id) ==
    /\ loads[id].status = "running"
    /\ loads' = [loads EXCEPT ![id].status = "panicked"]
    /\ UNCHANGED <<view_vars, call, state, reload_rx, applied>>

\* update in AppState::Loading
UpdateLoading ==
    /\ state.kind = "Loading"
    /\ IF try_recv(loads, state.rx).kind = "Ok"
       THEN ApplyResult(loads, try_recv(loads, state.rx))
       ELSE UNCHANGED <<view_vars, app_vars>>
    /\ UNCHANGED call

\* update in AppState::Error: the Retry button
UpdateError ==
    /\ state.kind = "Error"
    /\ \E retry \in IF Len(loads) < MaxLoads THEN BOOLEAN ELSE {FALSE} :
          IF retry
          THEN /\ loads' = spawn_load(loads)
               /\ state' = Loading(Len(loads) + 1)
               /\ reload_rx' = None
               /\ UNCHANGED applied
          ELSE UNCHANGED app_vars
    /\ UNCHANGED <<view_vars, call>>

\* the end of update in AppState::Ready, with the loads and the receiver
\* after the reload request was handled
PollReload(ls, rx) ==
    IF rx = None THEN /\ loads' = ls
                      /\ reload_rx' = None
                      /\ UNCHANGED <<view_vars, state, applied>>
    ELSE IF try_recv(ls, rx[1]).kind = "Ok" THEN ApplyResult(ls, try_recv(ls, rx[1]))
    ELSE IF try_recv(ls, rx[1]).kind = "Empty"
         THEN /\ loads' = ls
              /\ reload_rx' = rx
              /\ UNCHANGED <<view_vars, state, applied>>
    ELSE /\ loads' = ls
         /\ state' = Error("Background load worker disconnected")
         /\ reload_rx' = None
         /\ UNCHANGED <<view_vars, applied>>

\* update in AppState::Ready
UpdateReady ==
    /\ state.kind = "Ready"
    /\ \E reload_requested \in IF Len(loads) < MaxLoads THEN BOOLEAN ELSE {FALSE} :
          IF reload_requested /\ reload_rx = None
          THEN PollReload(spawn_load(loads), Some(Len(loads) + 1))
          ELSE PollReload(loads, reload_rx)
    /\ UNCHANGED call

LoadNext ==
    \/ UpdateLoading
    \/ UpdateError
    \/ UpdateReady
    \/ \E id \in DOMAIN loads : WorkerSend(id)
    \/ \E id \in DOMAIN loads : WorkerPanic(id)

SpecLoad == LoadInit /\ [][LoadNext]_vars

---------------------------------------------------------------------------
(* Properties of the render graph *)

\* the ids of the nodes of a render graph
IdsOf(cache) == {cache.nodes[k].id : k \in DOMAIN cache.nodes}

\* strictly ascending in the order of (usize, usize) pairs
StrictlyAscending(edges) ==
    \A k \in 1..(Len(edges) - 1) :
        \/ edges[k][1] < edges[k + 1][1]
        \/ edges[k][1] = edges[k + 1][1] /\ edges[k][2] < edges[k + 1][2]

NoDuplicateEdge(edges) ==
    \A k, l \in DOMAIN edges : k # l => edges[k] # edges[l]

\* the node cap of a rebuild as the claim states it
ClampedCap == Max2(2, Min2(max_nodes, Max2(2, Cardinality(DOMAIN graph.nodes))))

PassesThreshold(id) == node_metric(graph.nodes[id], metric) >= Max2(min_size_mb, 0) * MiB

\* C1: adjacency mirrors the edge list: every edge (a,b) has b exactly once
\* in outgoing[a] and a exactly once in incoming[b], outgoing and incoming
\* hold nothing that is not an edge, and no edge is a self loop.
C1_AdjacencyMirrorsEdges ==
    IsSome(graph_cache) =>
        LET c == graph_cache[1]
        IN  /\ \A k \in DOMAIN c.edges :
                  /\ c.edges[k][1] # c.edges[k][2]
                  /\ Occurrences(c.outgoing[c.edges[k][1] + 1], c.edges[k][2]) = 1
                  /\ Occurrences(c.incoming[c.edges[k][2] + 1], c.edges[k][1]) = 1
            /\ \A i \in DOMAIN c.outgoing : \A t \in Range(c.outgoing[i]) :
                  Contains(c.edges, <<i - 1, t>>)
            /\ \A i \in DOMAIN c.incoming : \A src \in Range(c.incoming[i]) :
                  Contains(c.edges, <<src, i - 1>>)

\* an inclusion has just connected the new node in both directions
C1_Witness ==
    /\ last_op = "include"
    /\ IsSome(graph_cache)
    /\ LET c == graph_cache[1]
       IN  /\ c.outgoing[Len(c.nodes)] # <<>>
           /\ c.incoming[Len(c.nodes)] # <<>>

\* C2: the edge set is the full graph's forward references restricted to
\* the included nodes: (i,j) is an edge iff i # j and nodes[j].id is listed
\* in the references of nodes[i].id.
C2_EdgesAreReferences ==
    IsSome(graph_cache) =>
        LET c == graph_cache[1]
            n == Len(c.nodes)
        IN  Range(c.edges) =
              {e \in (0..(n - 1)) \X (0..(n - 1)) :
                 /\ e[1] # e[2]
                 /\ Contains(graph.nodes[c.nodes[e[1] + 1].id].references, c.nodes[e[2] + 1].id)}

\* an inclusion has just added an edge found by the reverse scan and one
\* found among the forward references
C2_Witness ==
    /\ last_op = "include"
    /\ IsSome(graph_cache)
    /\ LET c == graph_cache[1]
           new_index == Len(c.nodes) - 1
       IN  /\ \E k \in DOMAIN c.edges : c.edges[k][2] = new_index
           /\ \E k \in DOMAIN c.edges : c.edges[k][1] = new_index

\* C3 as stated: the edge list is sorted ascending without duplicates after
\* every rebuild and after every incremental inclusion.
C3_EdgesSortedAlways ==
    IsSome(graph_cache) => StrictlyAscending(graph_cache[1].edges)

\* C3 amended: the edge list never holds a duplicate pair, and it is sorted
\* ascending after every rebuild; an inclusion appends without sorting.
C3_EdgesSortedAfterRebuild ==
    IsSome(graph_cache) =>
        /\ NoDuplicateEdge(graph_cache[1].edges)
        /\ last_op = "rebuild" => StrictlyAscending(graph_cache[1].edges)

\* a rebuild has just produced several edges
C3_Witness ==
    /\ last_op = "rebuild"
    /\ IsSome(graph_cache)
    /\ Len(graph_cache[1].edges) >= 3

\* C4: a rebuild with a previous render graph keeps world_pos and velocity
\* of every id included before and after, and gives exactly the ids that
\* were absent a fresh initial state.
C4_Continuity ==
    [][ (render_graph_revision' # render_graph_revision
            /\ IsSome(graph_cache) /\ IsSome(graph_cache'))
        => LET old == graph_cache[1]
               new == graph_cache'[1]
           IN  \A k \in DOMAIN new.nodes :
                  IF new.nodes[k].id \in IdsOf(old)
                  THEN \A j \in DOMAIN old.nodes :
                          old.nodes[j].id = new.nodes[k].id =>
                             /\ new.nodes[k].world_pos = old.nodes[j].world_pos
                             /\ new.nodes[k].velocity = old.nodes[j].velocity
                  ELSE /\ new.nodes[k].world_pos = 0
                       /\ new.nodes[k].velocity.dir = initial_direction(new.nodes[k].id, k - 1)
                       /\ new.nodes[k].velocity.speed =
                             IF new.nodes[k].id = graph.root_id THEN 0
                             ELSE 1150 + ((new.nodes[k].base_radius * 22) \div 1000)
      ]_vars

\* a rebuild has just kept a node that the simulation had moved, next to a
\* node in its initial state
C4_Witness ==
    /\ last_op = "rebuild"
    /\ render_graph_revision >= 2
    /\ IsSome(graph_cache)
    /\ \E k \in DOMAIN graph_cache[1].nodes : graph_cache[1].nodes[k].world_pos > 0
    /\ \E k \in DOMAIN graph_cache[1].nodes :
          /\ graph_cache[1].nodes[k].world_pos = 0
          /\ graph_cache[1].nodes[k].velocity.speed >= 1150

\* C5: after a rebuild the root and the selected node are in the render
\* graph, whatever the threshold and the node cap.
C5_RootAndSelectionKept ==
    last_op = "rebuild" =>
        /\ IsSome(graph_cache)
        /\ graph.root_id \in IdsOf(graph_cache[1])
        /\ IsSome(selected) => selected[1] \in IdsOf(graph_cache[1])

\* a rebuild at the minimum cap with root and selection below the threshold
C5_Witness ==
    /\ last_op = "rebuild"
    /\ max_nodes = 2
    /\ IsSome(selected)
    /\ selected[1] # graph.root_id
    /\ ~PassesThreshold(selected[1])
    /\ ~PassesThreshold(graph.root_id)
    /\ \E id \in DOMAIN graph.nodes : PassesThreshold(id)

\* C6: after a rebuild the render graph holds at most max_node_count nodes
\* (clamped to [2, max(2, total)]), root and selection included.
C6_NodeCap ==
    last_op = "rebuild" =>
        /\ IsSome(graph_cache)
        /\ Len(graph_cache[1].nodes) <= ClampedCap

\* a rebuild where the cap is reached with a selection present and a
\* threshold-passing node left out
C6_Witness ==
    /\ last_op = "rebuild"
    /\ IsSome(graph_cache)
    /\ IsSome(selected)
    /\ selected[1] # graph.root_id
    /\ Len(graph_cache[1].nodes) = ClampedCap
    /\ \E id \in DOMAIN graph.nodes \ IdsOf(graph_cache[1]) : PassesThreshold(id)

\* C7: apart from root and selection a rebuild admits exactly the top
\* candidates: every admitted node passes the threshold, no threshold-passing
\* node left out has a strictly larger metric than an admitted one, and below
\* the cap every threshold-passing node is admitted.
C7_TopCandidates ==
    last_op = "rebuild" =>
        /\ IsSome(graph_cache)
        /\ LET admitted == IdsOf(graph_cache[1])
               pinned == {graph.root_id} \cup Range(selected)
               m(id) == node_metric(graph.nodes[id], metric)
           IN  /\ \A id \in admitted \ pinned : PassesThreshold(id)
               /\ \A out \in DOMAIN graph.nodes \ admitted : \A in \in admitted \ pinned :
                     PassesThreshold(out) => ~(m(out) > m(in))
               /\ Len(graph_cache[1].nodes) < ClampedCap =>
                     \A id \in DOMAIN graph.nodes : PassesThreshold(id) => id \in admitted

\* a rebuild that left out a threshold-passing node ranked below an admitted one
C7_Witness ==
    /\ last_op = "rebuild"
    /\ IsSome(graph_cache)
    /\ \E out \in DOMAIN graph.nodes \ IdsOf(graph_cache[1]) :
       \E in \in IdsOf(graph_cache[1]) \ ({graph.root_id} \cup Range(selected)) :
          /\ PassesThreshold(out)
          /\ node_metric(graph.nodes[out], metric) < node_metric(graph.nodes[in], metric)

\* C8: inclusion is idempotent: including an id that is in the render graph
\* changes nothing, so including an id twice gives what including it once gives.
C8_IncludeIdempotent ==
    \A id \in DOMAIN graph.nodes \cup {0} :
        LET once == include_node_in_current_graph(graph, iter_order, metric, graph_cache, id)
        IN  /\ include_node_in_current_graph(graph, iter_order, metric, once, id) = once
            /\ (IsSome(graph_cache) /\ id \in IdsOf(graph_cache[1])) => once = graph_cache

\* an id already in the render graph has just been included again, while
\* another id is still absent
C8_Witness ==
    /\ last_op = "reinclude"
    /\ IsSome(graph_cache)
    /\ DOMAIN graph.nodes \ IdsOf(graph_cache[1]) # {}

\* C9: a reused search-match set equals a fresh match of the query over the
\* current node list.
C9_SearchCacheFresh ==
    pseudo_reused =>
        /\ IsSome(graph_cache)
        /\ pseudo_matches = Some(match_indices(graph_cache[1].nodes, Trim(search)))

\* C10: reused details-panel data equals a fresh computation on the current
\* render graph.
C10_DetailsCacheFresh ==
    (pc = "related" /\ details_reused) =>
        details_data = Some(fresh_details(graph, metric, graph_cache, selected[1],
                                          DETAILS_RELATED_LIMIT))

---------------------------------------------------------------------------
(* Properties of the draw order *)

\* the nodes of the render graph were drawn by the last step
NodesDrawn == last_op \in {"draw_cached", "draw_sorted"} /\ IsSome(graph_cache)

\* an order holds every index of the nodes once, with metric_value never
\* decreasing along it
IsDrawOrder(order, nodes) ==
    /\ Len(order) = Len(nodes)
    /\ Range(order) = {k - 1 : k \in DOMAIN nodes}
    /\ \A k \in 1..(Len(order) - 1) :
          nodes[order[k] + 1].metric_value <= nodes[order[k + 1] + 1].metric_value

\* C24: whenever nodes are drawn the draw order is a permutation of the
\* indices of the nodes in non-decreasing metric_value order; and a draw
\* that follows a draw with no rebuild and no inclusion in between keeps
\* the order it has without sorting.
C24_DrawOrderSorted ==
    /\ [](NodesDrawn => IsDrawOrder(graph_cache[1].draw_order, graph_cache[1].nodes))
    /\ [][(pc = "interact" /\ IsSome(graph_cache)
            /\ IsDrawOrder(graph_cache[1].draw_order, graph_cache[1].nodes)
            /\ ~graph_cache[1].draw_order_dirty)
           => (last_op' = "draw_cached"
               /\ graph_cache'[1].draw_order = graph_cache[1].draw_order)]_vars

\* nodes drawn in a sorted order that is not the order of the indices,
\* after an inclusion that no rebuild followed
C24_Witness ==
    /\ NodesDrawn
    /\ last_op = "draw_sorted"
    /\ render_graph_revision = 1
    /\ Len(graph_cache[1].nodes) >= 3
    /\ graph_cache[1].draw_order # [k \in DOMAIN graph_cache[1].nodes |-> k - 1]

---------------------------------------------------------------------------
(* Properties of the index structures *)

\* C26: in every render graph index_by_id has one entry per node and maps
\* the id of node i to i, outgoing and incoming are as long as the nodes,
\* every edge joins two indices of nodes, and root_index is Some(i)
\* exactly when node i has the root id of the graph.
C26_IndexesAgree ==
    IsSome(graph_cache) =>
        LET c == graph_cache[1]
            n == Len(c.nodes)
        IN  /\ Cardinality(DOMAIN c.index_by_id) = n
            /\ \A i \in 0..(n - 1) :
                  /\ c.nodes[i + 1].id \in DOMAIN c.index_by_id
                  /\ c.index_by_id[c.nodes[i + 1].id] = i
                  /\ (c.root_index = Some(i)) <=> (c.nodes[i + 1].id = graph.root_id)
            /\ c.root_index = None \/ \E i \in 0..(n - 1) : c.root_index = Some(i)
            /\ Len(c.outgoing) = n
            /\ Len(c.incoming) = n
            /\ \A k \in DOMAIN c.edges : c.edges[k][1] \in 0..(n - 1) /\ c.edges[k][2] \in 0..(n - 1)

\* a render graph with edges and a root, after a second rebuild and an
\* inclusion that followed it
C26_Witness ==
    /\ IsSome(graph_cache)
    /\ last_op = "include"
    /\ render_graph_revision >= 2
    /\ Len(graph_cache[1].nodes) >= 3
    /\ Len(graph_cache[1].edges) >= 2
    /\ IsSome(graph_cache[1].root_index)

---------------------------------------------------------------------------
(* Properties of an inclusion *)

\* C27: an inclusion of a node that is not in the render graph appends:
\* the nodes before it stay at their indices with their id, position,
\* velocity, metric_value and base_radius, every edge is kept, min_metric
\* and max_metric stay, and the new node has the index that was the
\* number of nodes.
C27_InclusionAppends ==
    [][last_op' = "include" =>
         LET old == graph_cache[1]
             new == graph_cache'[1]
         IN  /\ IsSome(graph_cache) /\ IsSome(graph_cache')
             /\ Len(new.nodes) = Len(old.nodes) + 1
             /\ \A k \in DOMAIN old.nodes : new.nodes[k] = old.nodes[k]
             /\ \A k \in DOMAIN old.nodes : new.index_by_id[old.nodes[k].id] = k - 1
             /\ new.nodes[Len(new.nodes)].id \notin IdsOf(old)
             /\ new.index_by_id[new.nodes[Len(new.nodes)].id] = Len(old.nodes)
             /\ Range(old.edges) \subseteq Range(new.edges)
             /\ new.min_metric = old.min_metric
             /\ new.max_metric = old.max_metric]_vars

\* an inclusion, into a render graph whose nodes a physics step has moved,
\* of a node with a metric_value outside of min_metric..max_metric
C27_Witness ==
    /\ last_op = "include"
    /\ IsSome(graph_cache)
    /\ \E k \in DOMAIN graph_cache[1].nodes : graph_cache[1].nodes[k].world_pos # 0
    /\ graph_cache[1].nodes[Len(graph_cache[1].nodes)].metric_value
          \notin graph_cache[1].min_metric..graph_cache[1].max_metric

---------------------------------------------------------------------------
(* Properties of the changes of the filters *)

\* node k of a render graph is in the state make_render_node gives it
IsFreshNode(cache, k) ==
    /\ cache.nodes[k].world_pos = 0
    /\ cache.nodes[k].velocity.dir = initial_direction(cache.nodes[k].id, k - 1)
    /\ cache.nodes[k].velocity.speed =
          IF cache.nodes[k].id = graph.root_id THEN 0
          ELSE 1150 + ((cache.nodes[k].base_radius * 22) \div 1000)

\* C28: a change of the metric drops the render graph and asks for a
\* rebuild, and the render graph that comes after a dropped one is made by
\* a rebuild and holds fresh nodes only; a change of the threshold or of
\* the node cap alone leaves the render graph in place and asks for a
\* rebuild, and a rebuild of a render graph in place keeps the position
\* and the velocity of every node that stays.
C28_MetricChangeDiscards ==
    [][/\ metric' # metric => (graph_cache' = None /\ graph_dirty')
       /\ (graph_cache = None /\ IsSome(graph_cache')) =>
             /\ last_op' = "rebuild"
             /\ \A k \in DOMAIN graph_cache'[1].nodes : IsFreshNode(graph_cache'[1], k)
       /\ (metric' = metric /\ (min_size_mb' # min_size_mb \/ max_nodes' # max_nodes)) =>
             (graph_cache' = graph_cache /\ graph_dirty')
       /\ (last_op' = "rebuild" /\ IsSome(graph_cache) /\ IsSome(graph_cache')) =>
             \A k \in DOMAIN graph_cache'[1].nodes, j \in DOMAIN graph_cache[1].nodes :
                graph_cache[1].nodes[j].id = graph_cache'[1].nodes[k].id =>
                   /\ graph_cache'[1].nodes[k].world_pos = graph_cache[1].nodes[j].world_pos
                   /\ graph_cache'[1].nodes[k].velocity = graph_cache[1].nodes[j].velocity
      ]_vars

\* the second rebuild came after a change of the metric: its nodes, more
\* than one, are all fresh
C28_Witness ==
    /\ last_op = "rebuild"
    /\ render_graph_revision = 2
    /\ metric # "NarSize"
    /\ IsSome(graph_cache)
    /\ Len(graph_cache[1].nodes) >= 2
    /\ \A k \in DOMAIN graph_cache[1].nodes : IsFreshNode(graph_cache[1], k)

---------------------------------------------------------------------------
(* Properties of shortest_path_from_root *)

RECURSIVE ReachWithin(_, _)
\* the nodes at most k forward references away from the root
ReachWithin(g, k) ==
    IF k = 0 THEN {g.root_id}
    ELSE LET near == ReachWithin(g, k - 1)
         IN  near \cup {id \in DOMAIN g.nodes :
                          \E src \in near : Contains(g.nodes[src].references, id)}

\* the least number of forward references from the root to a reachable node
Distance(g, target) ==
    CHOOSE k \in 0..node_count(g) :
        /\ target \in ReachWithin(g, k)
        /\ \A j \in 0..(k - 1) : target \notin ReachWithin(g, j)

\* p leads from the root to the target along forward references
IsForwardPath(g, target, p) ==
    /\ Len(p) >= 1
    /\ p[1] = g.root_id
    /\ p[Len(p)] = target
    /\ \A i \in 1..(Len(p) - 1) : Contains(g.nodes[p[i]].references, p[i + 1])

\* what shortest_path_from_root has to return for a target
IsShortestPathAnswer(g, target, result) ==
    IF target \notin DOMAIN g.nodes THEN result = None
    ELSE IF target = g.root_id THEN result = Some(<<g.root_id>>)
    ELSE IF target \notin ReachWithin(g, node_count(g)) THEN result = None
    ELSE /\ IsSome(result)
         /\ IsForwardPath(g, target, result[1])
         /\ Len(result[1]) - 1 = Distance(g, target)

\* C11: a returned path starts at the root, ends at the target, follows
\* forward references and has the least possible number of edges; the root
\* itself gives [root]; an unreachable target and an id that is no node give
\* None.  The function computed in one go returns the same.
C11_ShortestPath ==
    call.phase = "done" =>
        /\ IsShortestPathAnswer(graph, call.target, call.result)
        /\ shortest_path_from_root(graph, call.target) = call.result

\* a path of two edges was returned although the graph has a cycle
C11_Witness ==
    /\ call.phase = "done"
    /\ IsSome(call.result)
    /\ Len(call.result[1]) = 3
    /\ \E a, b \in DOMAIN graph.nodes :
          /\ Contains(graph.nodes[a].references, b)
          /\ Contains(graph.nodes[b].references, a)

\* C12: the search terminates on every finite graph, cycles included: no
\* node is enqueued twice, the walk back along the parent map never leaves
\* the map before it reaches the root, a call that has not returned can
\* always take its next step, and it returns within 2 * n + 3 steps.
C12_SearchTerminates ==
    /\ call.phase # "idle" =>
          /\ \A id \in Range(call.enqueued) : Occurrences(call.enqueued, id) = 1
          /\ call.steps <= 2 * node_count(graph) + 3
    /\ call.phase = "walk" =>
          /\ call.cursor = graph.root_id \/ call.cursor \in DOMAIN call.parent
          /\ Len(call.path) <= node_count(graph)
    /\ call.phase \in {"entry", "search", "searched", "walk"} => ENABLED PathNext

\* a search over a graph whose root lies on a cycle has returned a path
C12_Witness ==
    /\ call.phase = "done"
    /\ IsSome(call.result)
    /\ Len(call.result[1]) = 3
    /\ \E a \in DOMAIN graph.nodes :
          /\ Contains(graph.nodes[graph.root_id].references, a)
          /\ Contains(graph.nodes[a].references, graph.root_id)
    /\ Len(call.enqueued) = 3

---------------------------------------------------------------------------
(* Properties of the related sets *)

\* C13: the related node set filled by the forward pass and then by the
\* reverse pass never holds more than RELATED_NODE_LIMIT entries, whatever
\* the number of direct neighbours of the selected node.
C13_RelatedNodesCapped ==
    Cardinality(call.related_nodes) <= RELATED_NODE_LIMIT

\* both passes ran on a node with MaxNeighbours neighbours in each direction
\* and the second one stopped at the limit
C13_Witness ==
    /\ call.phase = "done"
    /\ Len(graph.nodes[call.selected_id].references) >= MaxNeighbours
    /\ Len(graph.nodes[call.selected_id].referrers) >= MaxNeighbours
    /\ Cardinality(call.related_nodes) = RELATED_NODE_LIMIT

---------------------------------------------------------------------------
(* Properties of two runs on the same inputs *)

\* C14: two runs with the same graph, metric, threshold, node cap and
\* selection and the same rebuilds and ticks show the same ordered node
\* list, the same edge list and the same positions, whatever the iteration
\* orders of their node maps.
C14_RunsAgree ==
    call.phase \in {"rebuilt", "ticked"} => Observed(call.run_a) = Observed(call.run_b)

---------------------------------------------------------------------------
(* Properties of the quadtree and of the repulsion query *)

RECURSIVE NodesOf(_)
\* a node and all nodes below it
NodesOf(node) ==
    {node} \cup UNION {NodesOf(node.children[k][1]) : k \in {j \in 1..4 : node.children[j] # None}}

\* the leaves of a tree
LeavesOf(tree) == {node \in NodesOf(tree) : is_leaf(node)}

\* the sum of the masses of the children, quadrant by quadrant
ChildMass(node) ==
    SumSeq([k \in 1..4 |-> IF node.children[k] = None THEN 0 ELSE node.children[k][1].mass])

\* a tree was built
QuadBuilt == call.phase \in {"built", "queried"} /\ IsSome(call.quadtree)

\* C15: the mass of an internal node is the sum of the masses of its
\* children, the mass of a leaf is the number of indices it holds, and the
\* mass of the root is the number of input points.
C15_MassIsCount ==
    QuadBuilt =>
        /\ call.quadtree[1].mass = Len(call.positions)
        /\ \A node \in NodesOf(call.quadtree[1]) :
              IF is_leaf(node) THEN node.mass = Len(node.indices)
              ELSE node.mass = ChildMass(node)

\* a tree with an internal node below the root
C15_Witness ==
    /\ QuadBuilt
    /\ \E node \in NodesOf(call.quadtree[1]) :
          /\ ~is_leaf(node)
          /\ node # call.quadtree[1]
          /\ node.mass > QUADTREE_LEAF_CAPACITY

\* C16: a node is a leaf with indices and no children or an internal node
\* with no indices and at least two children, and every input index is held
\* by exactly one leaf, once, and the bounds of that leaf contain its point.
C16_LeavesPartitionPoints ==
    QuadBuilt =>
        /\ \A node \in NodesOf(call.quadtree[1]) :
              IF is_leaf(node) THEN node.indices # <<>>
              ELSE /\ node.indices = <<>>
                   /\ Cardinality({k \in 1..4 : node.children[k] # None}) >= 2
        /\ \A index \in 0..(Len(call.positions) - 1) :
              \E leaf \in LeavesOf(call.quadtree[1]) :
                 /\ Occurrences(leaf.indices, index) = 1
                 /\ contains(leaf.bounds, call.positions[index + 1])
                 /\ \A other \in LeavesOf(call.quadtree[1]) \ {leaf} :
                       ~Contains(other.indices, index)

\* a tree with a leaf at the depth limit that holds more than the capacity
C16_Witness ==
    /\ QuadBuilt
    /\ \E leaf \in LeavesOf(call.quadtree[1]) :
          /\ leaf.bounds.half_extent * (2 ^ QUADTREE_MAX_DEPTH)
                = call.quadtree[1].bounds.half_extent
          /\ Len(leaf.indices) > QUADTREE_LEAF_CAPACITY

\* two forces add the same terms the same number of times
SameTerms(a, b) ==
    \A term \in Range(a) \cup Range(b) : Occurrences(a, term) = Occurrences(b, term)

\* C17: with theta = 0 the query takes no cell as one mass: the force of a
\* point is made of the pairwise term of every other point, each once,
\* which is the pairwise sum.
C17_ThetaZeroIsPairwise ==
    (call.phase = "queried" /\ call.theta = 0) =>
        /\ SameTerms(call.force, brute_force_repulsion(call.index, call.positions))
        /\ \A k \in DOMAIN call.force : call.force[k][1] = "point"

\* a query with theta = 0 on a tree one cell of which BARNES_HUT_THETA
\* would take as one mass
C17_Witness ==
    /\ call.phase = "queried"
    /\ call.theta = 0
    /\ \E node \in NodesOf(call.quadtree[1]) :
          /\ ~is_leaf(node)
          /\ can_approximate(node, call.positions[call.index + 1], BARNES_HUT_THETA)

---------------------------------------------------------------------------
(* Properties of the integrator *)

\* the magnitude of the mean of the vectors is at most DriftTolerance
MeanWithinTolerance(vectors) ==
    LET sum == <<SumSeq([k \in DOMAIN vectors |-> vectors[k][1]]),
                 SumSeq([k \in DOMAIN vectors |-> vectors[k][2]])>>
    IN  length_sq(sum, <<0, 0>>)
          <= (Len(vectors) * DriftTolerance) * (Len(vectors) * DriftTolerance)

\* C18: after a physics step on a render graph of any node count the mean
\* velocity and the centroid of the positions are zero within the
\* tolerance of 0.001.
C18_DriftCancelled ==
    call.phase = "stepped" =>
        /\ MeanWithinTolerance([k \in DOMAIN call.nodes |-> call.nodes[k].velocity])
        /\ MeanWithinTolerance([k \in DOMAIN call.nodes |-> call.nodes[k].world_pos])

\* the indices held by the leaves at and below a node
IndicesBelow(node) == UNION {Range(leaf.indices) : leaf \in LeavesOf(node)}

\* the terms of the force of the last query that count point `other`: its
\* pairwise term, or a cell taken as one mass that holds it
TermsCounting(other) ==
    {k \in DOMAIN call.force :
        IF call.force[k][1] = "point" THEN call.force[k][2] = other
        ELSE \E node \in NodesOf(call.quadtree[1]) :
                /\ node.bounds = call.force[k][4]
                /\ other \in IndicesBelow(node)}

\* C30: in the force of a query for point i, every other point is counted
\* by exactly one term, its pairwise term or one cell taken as one mass,
\* and point i is counted by no term; the mass of a cell term is the
\* number of points it counts.
C30_EachPointOnce ==
    call.phase = "queried" =>
        /\ \A other \in 0..(Len(call.positions) - 1) :
              Cardinality(TermsCounting(other)) = IF other = call.index THEN 0 ELSE 1
        /\ \A k \in DOMAIN call.force :
              call.force[k][1] = "cell" =>
                 \E node \in NodesOf(call.quadtree[1]) :
                    /\ node.bounds = call.force[k][4]
                    /\ call.force[k][2] = Cardinality(IndicesBelow(node))

\* a query that took a cell as one mass and met another point in a leaf
C30_Witness ==
    /\ call.phase = "queried"
    /\ call.theta = BARNES_HUT_THETA
    /\ \E k \in DOMAIN call.force : call.force[k][1] = "cell"
    /\ \E k \in DOMAIN call.force : call.force[k][1] = "point"

\* a coordinate of a point of the list is infinite or NaN
HasNonFinite(positions) ==
    \E k \in DOMAIN positions : ~is_finite(positions[k][1]) \/ ~is_finite(positions[k][2])

\* C22: build returns None when the position list is empty or a
\* coordinate of a point is not finite, and a tree in every other case.
C22_NoneIffEmptyOrNonFinite ==
    call.phase = "built" =>
        (call.quadtree = None <=> (call.positions = <<>> \/ HasNonFinite(call.positions)))

\* the points at and below a node all fall into one quadrant of its bounds
SingleQuadrant(node) ==
    Cardinality({quadrant_for(node.bounds, call.positions[index + 1]) :
                    index \in IndicesBelow(node)}) <= 1

\* C23: the construction ends with a tree for every non-empty list of
\* finite points; every node
\* of the tree lies at a depth of 0..QUADTREE_MAX_DEPTH (the half extent of
\* the root is 2^depth times its own); and a node whose points all fall
\* into one quadrant is a leaf, whatever the number of its points.
C23_BuildEndsWithinDepth ==
    /\ call.phase = "entry" => (IsSome(build(call.positions)) <=> call.positions # <<>>)
    /\ QuadBuilt =>
          \A node \in NodesOf(call.quadtree[1]) :
             /\ \E depth \in 0..QUADTREE_MAX_DEPTH :
                   node.bounds.half_extent * (2 ^ depth) = call.quadtree[1].bounds.half_extent
             /\ SingleQuadrant(node) => is_leaf(node)

\* a leaf above the depth limit that holds more points than the capacity,
\* all of them at one place
C23_Witness ==
    /\ QuadBuilt
    /\ \E leaf \in LeavesOf(call.quadtree[1]) :
          /\ Len(leaf.indices) > QUADTREE_LEAF_CAPACITY
          /\ leaf.bounds.half_extent * (2 ^ QUADTREE_MAX_DEPTH)
                > call.quadtree[1].bounds.half_extent
          /\ \A k \in DOMAIN leaf.indices :
                call.positions[leaf.indices[k] + 1] = call.positions[leaf.indices[1] + 1]

\* the pushes of the last collision pass applied to the pair {i, j}
PushesOf(i, j) ==
    {k \in DOMAIN call.forces : call.forces[k] \in {<<i, j>>, <<j, i>>}}

\* C21: the collision pass applies the overlap push exactly once to every
\* pair of different points nearer than 4.2 times the sum of their radii
\* and to no other pair, as the scan over all i < j does.
C21_PairsAsBruteForce ==
    call.phase = "collided" =>
        /\ \A i, j \in 0..(Len(call.positions) - 1) :
              i < j => Cardinality(PushesOf(i, j)) =
                          IF <<i, j>> \in brute_force_collisions(call.positions, call.radii)
                          THEN 1 ELSE 0
        /\ \A k \in DOMAIN call.forces : call.forces[k][1] # call.forces[k][2]

\* a pass on a subdivided tree that pushed a pair of points of two
\* different leaves and left other pairs alone
C21_Witness ==
    /\ call.phase = "collided"
    /\ ~is_leaf(call.quadtree[1])
    /\ \E k \in DOMAIN call.forces :
          \A leaf \in LeavesOf(call.quadtree[1]) :
             ~(Contains(leaf.indices, call.forces[k][1])
               /\ Contains(leaf.indices, call.forces[k][2]))
    /\ \E i, j \in 0..(Len(call.positions) - 1) : i < j /\ PushesOf(i, j) = {}

---------------------------------------------------------------------------
(* Properties of the loads *)

\* C19: a result that becomes the state comes from the load started last,
\* no load has its result applied twice, and the graph of a Ready state is
\* the graph of the result applied last.
C19_LatestLoadApplied ==
    /\ \A k \in DOMAIN applied : applied[k].load = applied[k].started
    /\ \A j, k \in DOMAIN applied : applied[j].load = applied[k].load => j = k
    /\ (state.kind = "Ready" /\ loads # <<>>) =>
          /\ applied # <<>>
          /\ loads[applied[Len(applied)].load].result.ok
          /\ graph = loads[applied[Len(applied)].load].result.session[1]

\* a reload has replaced the graph of the first load by a different one
C19_Witness ==
    /\ state.kind = "Ready"
    /\ Len(applied) = 2
    /\ applied[2].load = 2
    /\ graph # loads[1].result.session[1]

\* a step in which the failure of a load is received
ErrReceived(id) ==
    /\ loads[id].status = "sent"
    /\ ~loads[id].result.ok
    /\ loads'[id].status = "received"

\* the failure of load `id` becomes the Error state
ErrShown(id) ==
    /\ state.kind \in {"Loading", "Ready"}
    /\ state' = Error(loads[id].result.message)
    /\ reload_rx' = None

\* the Retry step: a new load is started and awaited
RetryStep ==
    /\ loads' = spawn_load(loads)
    /\ state' = Loading(Len(loads'))
    /\ reload_rx' = None

\* C20: the failure of a load, received while Loading or while Ready,
\* makes the state Error with the message of the failure; in Error no
\* load is under way and every step that changes anything is a Retry,
\* which starts a load and makes the state Loading.
C20_FailureAndRetry ==
    /\ [](state.kind = "Error" =>
            /\ reload_rx = None
            /\ \A id \in DOMAIN loads : loads[id].status \notin {"running", "sent"})
    /\ [][/\ \A id \in DOMAIN loads : ErrReceived(id) => ErrShown(id)
            /\ (state.kind = "Error" => RetryStep)]_vars

\* the failure of a reload was shown and Retry has started the third load
C20_Witness ==
    /\ state.kind = "Loading"
    /\ Len(loads) = 3
    /\ loads[1].result.ok
    /\ loads[2].status = "received"
    /\ ~loads[2].result.ok

\* the worker of load `id` has ended: its result is in the channel, or it
\* sent none
WorkerEnded(id) == loads[id].status \in {"sent", "panicked"}

\* C29: when the worker of the awaited load has ended, with or without a
\* result, the next frame ends the wait with Ready or Error, for the load
\* awaited in Loading and for the reload awaited in Ready alike.
C29_EndedLoadIsLeft ==
    /\ (state.kind = "Loading" /\ WorkerEnded(state.rx)) =>
          ENABLED (UpdateLoading /\ state'.kind \in {"Ready", "Error"})
    /\ (state.kind = "Ready" /\ reload_rx # None /\ WorkerEnded(reload_rx[1])) =>
          ENABLED (UpdateReady /\ reload_rx' = None /\ state'.kind \in {"Ready", "Error"})

---------------------------------------------------------------------------
(* Properties of the frames of the graph area *)

\* the physics step of the last frame ran and left a node faster than 0.001
FrameMoved ==
    /\ call.live_physics
    /\ Len(call.nodes) >= 2
    /\ \E k \in DOMAIN call.integrated :
          length_sq_of(call.integrated[k]) > DriftTolerance * DriftTolerance

\* the user turned the wheel over the graph area in the last frame
FrameZooming == call.hovered /\ call.scroll # 0

\* C25: a frame of the graph area requests another frame exactly when its
\* physics step reports motion or the user is dragging or zooming.
C25_RepaintOnMotionOrInteraction ==
    call.phase = "drawn" =>
        (call.repaint <=> (FrameMoved \/ call.dragged \/ FrameZooming))

\* C25, amended: a frame of the graph area requests another frame exactly
\* when its physics step reports motion or the user is dragging; a zoom
\* alone requests none.
C25_RepaintOnMotionOrDrag ==
    call.phase = "drawn" => (call.repaint <=> (FrameMoved \/ call.dragged))

\* a frame that zoomed a settled graph and requested no other frame
C25_Witness ==
    /\ call.phase = "drawn"
    /\ FrameZooming
    /\ call.zoom # 1000
    /\ call.live_physics
    /\ Len(call.nodes) >= 2
    /\ ~FrameMoved
    /\ ~call.dragged
    /\ ~call.repaint

====
